---- MODULE Spec2Model ----
(***************************************************************************)
(* A model of houdini-pathmanager: the background task runner              *)
(* (pathmanager/thread.py), the path-collection utilities                  *)
(* (pathmanager/utils.py, pathmanager/houdini/host.py), the preference     *)
(* storage (pathmanager/storage.py, widgets/browser.py), the replace       *)
(* plugin and the PathManager panel (ui/manager.py).                       *)
(*                                                                         *)
(* Each part of the program has its own variables and its own              *)
(* specification; the variables of the other parts stay at their initial   *)
(* values in it.                                                           *)
(***************************************************************************)
EXTENDS Integers, Sequences, FiniteSets, TLC

VARIABLES
    \* ---- pathmanager/thread.py ----
    parent,         \* task -> "unborn" | "ThreadManager" | "None"  (QObject parent)
    state,          \* task -> WorkerTask.State
    running,        \* task -> WorkerTask.running
    emitted,        \* task -> number of emissions of started / succeeded / finished
    events,         \* queued Worker.run invocations posted to the worker thread
    timers,         \* tasks with a pending QTimer.singleShot(0, cleanup)
    stack,          \* callables executing on the worker thread, innermost last
    interruption,   \* worker_thread.isInterruptionRequested()
    thread_running, \* worker_thread.isRunning()
    picked,         \* task -> number of Worker.run invocations entered
    returned,       \* task -> number of Worker.run invocations that have returned
    posted,         \* the event queue of the thread the receivers of finished live in
    \* ---- pathmanager/utils.py, pathmanager/houdini/host.py ----
    path,           \* the path handed to find_files / the raw value of the scanned parm
    disk,           \* the names that exist on disk
    found,          \* the call to find_files and the tuple it returned
    item,           \* the call to HoudiniHost._get_item and the Item it returned
    template,       \* the parm template of the scanned parm
    \* ---- pathmanager/storage.py, the preferences of the panel ----
    visible,        \* ColumnData.visible of every column of the browser
    filters,        \* Filter.value and Filter.inverted of every filter widget
    file,           \* the state file: its kind and, if it is JSON, its content
    panel,          \* the PathManager widget: "open", "closed" or "failed"
    at_close,       \* the browser preferences when the panel was closed last
    stored,         \* the call of set_state: its argument, whether it succeeded
    got,            \* the call of get_state: what it returned
    raised,         \* the exception the last get_state / set_state let escape
    edits,          \* how often the user changed the browser
    \* ---- the items of the browser and the plugin parameters ----
    items,          \* the scanned items: raw path, status, preview.raw
    values,         \* Parameters.values() of the plugin
    previewed,      \* plugin.preview was called
    preview_error,  \* the exception plugin.preview raised to its caller, "" for none
    versions_cache, \* the lru_cache of VersionPlugin._get_versions: raw path -> versions
    \* ---- ui/manager.py: the PathManager panel and the scene ----
    scene,          \* the parms of the scene: whether node and parm exist, the raw value
    group,          \* Browser._group: the rows are grouped by node type
    path_filter,    \* the Filter of the 'path' column
    selection,      \* the selected rows of the tree
    preview_button, \* the 'Preview' button is checked
    before,         \* the panel and the scene when Commit was clicked, until the next event
    log,            \* what that Commit did, in order
    scene_edits,    \* how often the scene was changed from outside the panel
    \* ---- widgets/filter.py, widgets/tree.py ----
    accept_call,    \* the call of Filter.accepts: the filter, the value, the result
    tree,           \* the rows of the ElementModel
    removal,        \* the call of ElementModel.remove_element: the element, the tree before
    multi,          \* a MultiFilterWidget: _values, _filter.value, emissions of filter_changed
    column,         \* the data of the widget's column in every row of the model
    refresh         \* the call of FilterListWidget.refresh_column: the widget before it

threadVars == <<parent, state, running, emitted, events, timers, stack,
                interruption, thread_running, picked, returned, posted>>

fileVars == <<path, disk, found, item, template>>

prefsVars == <<visible, filters, file, panel, at_close, stored, got, raised, edits>>

pluginVars == <<items, values, previewed, preview_error, versions_cache>>

managerVars == <<scene, group, path_filter, selection, preview_button, before, log,
                 scene_edits>>

widgetVars == <<accept_call, tree, removal, multi, column, refresh>>

vars == <<threadVars, fileVars, prefsVars, pluginVars, managerVars, widgetVars>>

\* What the actions of one part leave alone: the variables of the other parts.
notThread == <<fileVars, prefsVars, pluginVars, managerVars, widgetVars>>
notFiles == <<threadVars, prefsVars, pluginVars, managerVars, widgetVars>>
notPrefs == <<threadVars, fileVars, pluginVars, managerVars, widgetVars>>
notPlugin == <<threadVars, fileVars, prefsVars, managerVars, widgetVars>>
notManager == <<threadVars, prefsVars, fileVars, widgetVars>>
notWidget == <<threadVars, fileVars, prefsVars, pluginVars, managerVars>>

\* The values the variables of a part keep in the specifications of the others.
NoItem == [called |-> FALSE, none |-> TRUE, status |-> "", raw |-> <<>>]
NotFound == [called |-> FALSE, files |-> <<>>]
FilesIdle ==
    path = <<>> /\ disk = {} /\ found = NotFound /\ item = NoItem /\ template = ""
PrefsIdle ==
    /\ visible = <<>> /\ filters = <<>> /\ file = "" /\ panel = "" /\ at_close = ""
    /\ stored = "" /\ got = "" /\ raised = "" /\ edits = 0
PluginIdle == items = <<>> /\ values = "" /\ previewed = FALSE /\ preview_error = "" /\ versions_cache = <<>>
ManagerIdle ==
    /\ scene = <<>> /\ group = FALSE /\ path_filter = "" /\ selection = {}
    /\ preview_button = FALSE /\ before = "" /\ log = <<>> /\ scene_edits = 0
WidgetIdle == /\ accept_call = "" /\ tree = <<>> /\ removal = ""
              /\ multi = "" /\ column = <<>> /\ refresh = ""

(***************************************************************************)
(* pathmanager/thread.py                                                   *)
(***************************************************************************)

\* Bounds of the task model.
MaxTasks == 2
MaxQueued == 3
MaxDepth == 2

Tasks == 1..MaxTasks

State_NEW == "New"
State_IN_PROGRESS == "In Progress"
State_SUCCEEDED == "Succeeded"
State_CANCELLED == "Cancelled"
State_FAILED == "Failed"

NoSignals == [started |-> 0, succeeded |-> 0, finished |-> 0]

Sum(f, S) == LET RECURSIVE Go(_)
                 Go(T) == IF T = {} THEN 0
                          ELSE LET x == CHOOSE y \in T : TRUE
                               IN f[x] + Go(T \ {x})
             IN Go(S)

\* Number of queue() calls made so far that reached the worker.
QueuedSoFar == Len(events) + Sum(picked, Tasks)

ThreadInit ==
    /\ parent = [t \in Tasks |-> "unborn"]
    /\ state = [t \in Tasks |-> State_NEW]
    /\ running = [t \in Tasks |-> FALSE]
    /\ emitted = [t \in Tasks |-> NoSignals]
    /\ events = <<>>
    /\ timers = {}
    /\ stack = <<>>
    /\ interruption = FALSE
    /\ thread_running = FALSE
    /\ picked = [t \in Tasks |-> 0]
    /\ returned = [t \in Tasks |-> 0]
    /\ posted = <<>>

\* ThreadManager.create_task: start the worker thread when it is not running,
\* make the task, parent it to the ThreadManager instance, connect queued to
\* Worker.run.
create_task(t) ==
    /\ parent[t] = "unborn"
    /\ thread_running' = TRUE
    /\ parent' = [parent EXCEPT ![t] = "ThreadManager"]
    /\ UNCHANGED <<state, running, emitted, events, timers, posted, stack, interruption,
                   picked, returned>>
    /\ UNCHANGED notThread

\* WorkerTask.queue called on the GUI thread: queued is emitted from another
\* thread than the worker's, so the connection is queued: the invocation of
\* Worker.run is posted to the worker thread's event loop.
queue(t) ==
    /\ parent[t] # "unborn"
    /\ QueuedSoFar < MaxQueued
    /\ events' = Append(events, t)
    /\ UNCHANGED <<parent, state, running, emitted, timers, posted, stack, interruption,
                   thread_running, picked, returned>>
    /\ UNCHANGED notThread

\* QThread.requestInterruption on the worker thread (made by the embedding
\* application; Worker.run reads it).
requestInterruption ==
    /\ thread_running
    /\ ~interruption
    /\ interruption' = TRUE
    /\ UNCHANGED <<parent, state, running, emitted, events, timers, posted, stack,
                   thread_running, picked, returned>>
    /\ UNCHANGED notThread

\* WorkerTask.cancel
cancel(st, t) == [st EXCEPT ![t] = State_CANCELLED]

\* WorkerTask.start, were it to leave the state as it is.
start_keeps_state(st, t) == st

\* WorkerTask.start: the state becomes State_IN_PROGRESS and started is emitted.
start(st, t) == [st EXCEPT ![t] = State_IN_PROGRESS]

\* WorkerTask.fail, were it to record success.
fail_as_success(st, t) == [st EXCEPT ![t] = State_SUCCEEDED]

\* WorkerTask.fail
fail(st, t) == [st EXCEPT ![t] = State_FAILED]

\* The beginning of Worker.run(t), up to the invocation of the callable:
\* with an interruption requested the task is cancelled and Worker.run returns,
\* otherwise task.start() and the first statement of task.run() (running = True)
\* are executed and the callable is entered.
EnterRun(t) ==
    /\ picked' = [picked EXCEPT ![t] = @ + 1]
    /\ IF interruption
       THEN /\ state' = cancel(state, t)
            /\ returned' = [returned EXCEPT ![t] = @ + 1]
            /\ UNCHANGED <<running, emitted, stack>>
       ELSE /\ state' = start(state, t)
            /\ emitted' = [emitted EXCEPT ![t].started = @ + 1]
            /\ running' = [running EXCEPT ![t] = TRUE]
            /\ stack' = Append(stack, t)
            /\ UNCHANGED returned

\* The worker thread's event loop delivers a queued Worker.run invocation.
WorkerRun ==
    /\ thread_running
    /\ stack = <<>>
    /\ events # <<>>
    /\ events' = Tail(events)
    /\ EnterRun(Head(events))
    /\ UNCHANGED <<parent, timers, posted, interruption, thread_running>>
    /\ UNCHANGED notThread

\* The running callable calls queue() on a task: the emitting thread is the
\* worker's own thread, so the connection is direct and Worker.run is entered
\* inside the callable.
FuncQueue(t) ==
    /\ stack # <<>>
    /\ Len(stack) < MaxDepth
    /\ parent[t] # "unborn"
    /\ QueuedSoFar < MaxQueued
    /\ EnterRun(t)
    /\ UNCHANGED <<parent, events, timers, posted, interruption, thread_running>>
    /\ UNCHANGED notThread

\* WorkerTask.finish: running = False, finished is emitted, cleanup is scheduled
\* with a zero timer on the current (worker) thread.  The emitting thread is
\* the worker's: the call of a slot whose receiver lives in another thread is
\* posted to that thread's event loop.
finish(t) ==
    /\ running' = [running EXCEPT ![t] = FALSE]
    /\ posted' = Append(posted, [kind |-> "finished", task |-> t])
    /\ timers' = timers \cup {t}
    /\ returned' = [returned EXCEPT ![t] = @ + 1]
    /\ stack' = SubSeq(stack, 1, Len(stack) - 1)

\* The innermost callable returns: task.run sets State_SUCCEEDED and emits succeeded,
\* then the finally clause of Worker.run calls task.finish().
FuncReturn ==
    /\ stack # <<>>
    /\ LET t == stack[Len(stack)]
       IN /\ state' = [state EXCEPT ![t] = State_SUCCEEDED]
          /\ emitted' = [emitted EXCEPT ![t].succeeded = @ + 1,
                                        ![t].finished = @ + 1]
          /\ finish(t)
    /\ UNCHANGED <<parent, events, interruption, thread_running, picked>>
    /\ UNCHANGED notThread

\* The innermost callable raises an Exception: Worker.run logs it, calls
\* task.fail() and then, in the finally clause, task.finish().
FuncRaise ==
    /\ stack # <<>>
    /\ LET t == stack[Len(stack)]
       IN /\ state' = fail(state, t)
          /\ emitted' = [emitted EXCEPT ![t].finished = @ + 1]
          /\ finish(t)
    /\ UNCHANGED <<parent, events, interruption, thread_running, picked>>
    /\ UNCHANGED notThread

\* The zero timer of finish() fires in the worker thread's event loop, where
\* it was started.  Its callable is the bound method task.cleanup: it is
\* called where the timer fired, or, when the call is routed to the thread the
\* task lives in and that is the thread of the receivers, posted to that
\* thread's event loop.
cleanup(t) ==
    /\ thread_running
    /\ stack = <<>>
    /\ t \in timers
    /\ timers' = timers \ {t}
    /\ \/ /\ parent' = [parent EXCEPT ![t] = "None"]
          /\ UNCHANGED posted
       \/ /\ posted' = Append(posted, [kind |-> "cleanup", task |-> t])
          /\ UNCHANGED parent
    /\ UNCHANGED <<state, running, emitted, events, stack, interruption,
                   thread_running, picked, returned>>
    /\ UNCHANGED notThread

\* The event loop of the receivers' thread delivers its first event: a slot
\* connected to finished runs, or WorkerTask.cleanup does.
Deliver ==
    /\ posted # <<>>
    /\ posted' = Tail(posted)
    /\ parent' = IF Head(posted).kind = "cleanup"
                 THEN [parent EXCEPT ![Head(posted).task] = "None"]
                 ELSE parent
    /\ UNCHANGED <<state, running, emitted, events, timers, stack, interruption,
                   thread_running, picked, returned>>
    /\ UNCHANGED notThread

NextThread ==
    \/ \E t \in Tasks : create_task(t)
    \/ \E t \in Tasks : queue(t)
    \/ requestInterruption
    \/ WorkerRun
    \/ \E t \in Tasks : FuncQueue(t)
    \/ FuncReturn
    \/ FuncRaise
    \/ \E t \in Tasks : cleanup(t)
    \/ Deliver

ThreadStart == ThreadInit /\ FilesIdle /\ PrefsIdle /\ PluginIdle /\ ManagerIdle /\ WidgetIdle

SpecThread == ThreadStart /\ [][NextThread]_vars

\* The worker thread's event loop keeps delivering events and timers, and a
\* callable that was entered ends.
FairThread ==
    /\ SpecThread
    /\ WF_vars(WorkerRun)
    /\ WF_vars(FuncReturn \/ FuncRaise)
    /\ \A t \in Tasks : WF_vars(cleanup(t))
    /\ WF_vars(Deliver)

\* The worker thread has nothing left to do.
WorkerIdle == stack = <<>> /\ events = <<>> /\ timers = {}

\* C6: at any moment at most one WorkerTask has running == True.
AtMostOneRunning == Cardinality({t \in Tasks : running[t]}) <= 1

\* C7: every task the worker picked up has finished emitted, once for each
\* Worker.run invocation that has returned, is not running afterwards, and is
\* un-parented from the ThreadManager once the worker thread has nothing left
\* to do.
PickedTaskIsFinishedAndCleanedUp ==
    \A t \in Tasks :
        /\ returned[t] = emitted[t].finished
        /\ (WorkerIdle /\ picked[t] > 0) => (~running[t] /\ parent[t] = "None")

\* Number of Worker.run invocations entered so far.
Entered == Sum(picked, Tasks)

\* C17: when the callable of a task raises, Worker.run returns without the
\* exception: the task is FAILED and not running, succeeded is not emitted for
\* the run, finished is, the interrupted caller and the queued invocations are
\* left as they were; and the worker enters Worker.run for a task that is
\* queued while a task has failed.
RaisingTaskFailsAndWorkerGoesOn ==
    /\ [][FuncRaise =>
            LET t == stack[Len(stack)]
            IN /\ state'[t] = State_FAILED
               /\ ~running'[t]
               /\ emitted'[t].succeeded = emitted[t].succeeded
               /\ emitted'[t].finished = emitted[t].finished + 1
               /\ returned'[t] = returned[t] + 1
               /\ stack' = SubSeq(stack, 1, Len(stack) - 1)
               /\ events' = events
               /\ thread_running']_vars
    /\ \A n \in 0..MaxQueued :
           ((\E t \in Tasks : state[t] = State_FAILED) /\ events # <<>> /\ Entered = n)
               ~> (Entered > n)

\* A task has failed without succeeded, and another task is running.
FailedTaskAndWorkerWentOn ==
    \E t \in Tasks, u \in Tasks :
        /\ t # u
        /\ state[t] = State_FAILED /\ ~running[t]
        /\ emitted[t].succeeded = 0 /\ emitted[t].finished = 1
        /\ stack = <<u>> /\ running[u]

\* C18: WorkerTask.cleanup un-parents a task only when no call of a slot
\* connected to its finished signal is still waiting in the event queue of the
\* thread the receiver lives in.
CleanupFollowsTheFinishedSlots ==
    [][\A t \in Tasks :
          (parent[t] # "None" /\ parent'[t] = "None") =>
              ~\E i \in 1..Len(posted) : posted[i] = [kind |-> "finished", task |-> t]]_vars

\* How many invocations of the callable of t are executing.
Invoked(t) == Cardinality({i \in 1..Len(stack) : stack[i] = t})

\* The lifecycle of one Worker.run invocation, step by step, for task t.
RunSteps(t) ==
    /\ \* Worker.run is entered: cancelled when an interruption is requested,
       \* otherwise started is emitted and the callable is invoked.
       picked'[t] # picked[t] =>
           IF interruption
           THEN /\ state'[t] = State_CANCELLED
                /\ emitted'[t] = emitted[t]
                /\ stack' = stack
                /\ running'[t] = running[t]
           ELSE /\ state'[t] = State_IN_PROGRESS
                /\ emitted'[t] = [emitted[t] EXCEPT !.started = @ + 1]
                /\ stack' = Append(stack, t)
                /\ running'[t]
    /\ emitted'[t].started # emitted[t].started => picked'[t] = picked[t] + 1
    /\ \* succeeded: only by the callable that returns, the state is SUCCEEDED.
       emitted'[t].succeeded # emitted[t].succeeded =>
           /\ FuncReturn
           /\ emitted'[t].succeeded = emitted[t].succeeded + 1
           /\ stack # <<>> /\ stack[Len(stack)] = t
           /\ state'[t] = State_SUCCEEDED
    /\ (FuncReturn /\ stack[Len(stack)] = t) =>
           emitted'[t].succeeded = emitted[t].succeeded + 1
    /\ \* finished: once, when the callable has ended, running is False.
       emitted'[t].finished # emitted[t].finished =>
           /\ emitted'[t].finished = emitted[t].finished + 1
           /\ stack # <<>> /\ stack[Len(stack)] = t
           /\ stack' = SubSeq(stack, 1, Len(stack) - 1)
           /\ state'[t] \in {State_SUCCEEDED, State_FAILED}
           /\ ~running'[t]
    /\ (stack # <<>> /\ stack[Len(stack)] = t /\ stack' = SubSeq(stack, 1, Len(stack) - 1)) =>
           emitted'[t].finished = emitted[t].finished + 1
    /\ state'[t] # state[t] =>
           \/ picked'[t] # picked[t]
           \/ emitted'[t].finished # emitted[t].finished
    /\ running'[t] # running[t] =>
           \/ picked'[t] # picked[t]
           \/ emitted'[t].finished # emitted[t].finished

\* What holds of the signals and of running between the steps.
RunOrder(t) ==
    /\ (state[t] = State_NEW) <=> (picked[t] = 0)
    /\ emitted[t].started = emitted[t].finished + Invoked(t)
    /\ emitted[t].succeeded <= emitted[t].finished
    /\ running[t] => Invoked(t) > 0

Digits == {"0", "1", "2", "3", "4", "5", "6", "7", "8", "9"}

DigitVal(c) == CHOOSE n \in 0..9 : ToString(n) = c

\* The code point of a character (sorted() compares strings by code point).
Ord(c) == CASE c = "#" -> 35 [] c = "$" -> 36 [] c = "%" -> 37
            [] c = "." -> 46 [] c = "/" -> 47
            [] c \in Digits -> 48 + DigitVal(c)
            [] c = "<UDIM>" -> 60
            [] c = "F" -> 70 [] c = "BACKTICK" -> 96
            [] c = "d" -> 100 [] c = "s" -> 115 [] c = "x" -> 120
            [] c = "{" -> 123 [] c = "}" -> 125
            [] OTHER -> 200

\* s < t in the order of Python's str comparison.
RECURSIVE StrLess(_, _)
StrLess(s, t) ==
    IF t = <<>> THEN FALSE
    ELSE IF s = <<>> THEN TRUE
    ELSE IF Head(s) = Head(t) THEN StrLess(Tail(s), Tail(t))
    ELSE Ord(Head(s)) < Ord(Head(t))

\* sorted(S) for a set of strings
RECURSIVE sorted(_)
sorted(S) ==
    IF S = {} THEN <<>>
    ELSE LET m == CHOOSE a \in S : \A b \in S \ {a} : StrLess(a, b)
         IN <<m>> \o sorted(S \ {m})

\* s[i..i+n-1] are n digits
AllDigits(s, i, n) == i + n - 1 <= Len(s) /\ \A k \in i..(i + n - 1) : s[k] \in Digits

\* The text at position i of s is the string lit.
At(s, i, lit) == i + Len(lit) - 1 <= Len(s) /\ SubSeq(s, i, i + Len(lit) - 1) = lit

\* re.sub(pattern, repl, s) for a pattern without alternatives that can match
\* the empty string: scan from the left; where the pattern matches (M gives the
\* length of the match at i, 0 for none) put R's replacement and go on after
\* the match.
sub(s, M(_, _), R(_, _)) ==
    LET RECURSIVE Go(_)
        Go(i) == IF i > Len(s) THEN <<>>
                 ELSE LET n == M(s, i)
                      IN IF n > 0 THEN R(s, i) \o Go(i + n)
                                  ELSE <<s[i]>> \o Go(i + 1)
    IN Go(1)

\* Length of the run of '#' starting at i.
RECURSIVE HashRun(_, _)
HashRun(s, i) == IF i <= Len(s) /\ s[i] = "#" THEN 1 + HashRun(s, i + 1) ELSE 0

(***************************************************************************)
(* pathmanager/utils.py: find_files                                        *)
(***************************************************************************)

\* The replacement texts of find_files.
ReUdim == "(1\\d{3})"
ReDigits(n) == "(\\d{" \o ToString(n) \o "})"
ReDigitsPlus == "(\\d+)"
Star == "*"

IsReDigits(a) == \E n \in 0..20 : a = ReDigits(n)
ReCount(a) == CHOOSE n \in 0..20 : a = ReDigits(n)

\* The matches of the patterns of find_files at position i.
MUdim(s, i) == IF s[i] = "<UDIM>" THEN 1 ELSE 0
MPercentUdim(s, i) == IF At(s, i, <<"%", "U", "D", "I", "M", "d">>) THEN 6 ELSE 0
MPadding(s, i) ==
    IF At(s, i, <<"%", "0">>) /\ AllDigits(s, i + 2, 1) /\ At(s, i + 3, <<"d">>)
    THEN 4 ELSE 0
MHashes(s, i) == HashRun(s, i)
MFrameDigit(s, i) == IF At(s, i, <<"$", "F">>) /\ AllDigits(s, i + 2, 1) THEN 3 ELSE 0
MFrame(s, i) == IF At(s, i, <<"$", "F">>) THEN 2 ELSE 0
MFrameOptDigit(s, i) ==
    IF At(s, i, <<"$", "F">>) THEN (IF AllDigits(s, i + 2, 1) THEN 3 ELSE 2) ELSE 0

RUdim(s, i) == <<ReUdim>>
RPadding(s, i) == <<ReDigits(DigitVal(s[i + 2]))>>
RHashes(s, i) == <<ReDigits(HashRun(s, i))>>
RFrameDigit(s, i) == <<ReDigits(DigitVal(s[i + 2]))>>
RFrame(s, i) == <<ReDigitsPlus>>
RStar(s, i) == <<Star>>

\* re_pattern with the substitution of $F made before that of $F<digit>.
re_pattern_frame_first(p) ==
    LET a == sub(p, MUdim, RUdim)
        b == sub(a, MPercentUdim, RUdim)
        c == sub(b, MPadding, RPadding)
        d == sub(c, MHashes, RHashes)
        e == sub(d, MFrame, RFrame)
    IN sub(e, MFrameDigit, RFrameDigit)

\* re_pattern of find_files: the six substitutions, in the order of the code.
re_pattern(p) ==
    LET a == sub(p, MUdim, RUdim)
        b == sub(a, MPercentUdim, RUdim)
        c == sub(b, MPadding, RPadding)
        d == sub(c, MHashes, RHashes)
        e == sub(d, MFrameDigit, RFrameDigit)
    IN sub(e, MFrame, RFrame)

\* glob_pattern of find_files: the four substitutions, in the order of the code.
glob_pattern(p) ==
    LET a == sub(p, MUdim, RStar)
        b == sub(a, MFrameOptDigit, RStar)
        c == sub(b, MHashes, RStar)
    IN sub(c, MPadding, RStar)

\* re_compile.match(f): the compiled pattern p, from its element i, matches a
\* prefix of f[j..].  '.' matches any character, the other characters of the
\* alphabet match themselves.
RECURSIVE ReMatchFrom(_, _, _, _)
ReMatchFrom(p, i, f, j) ==
    IF i > Len(p) THEN TRUE
    ELSE LET a == p[i]
         IN CASE a = ReDigitsPlus ->
                    \E k \in 1..(Len(f) - j + 1) :
                        AllDigits(f, j, k) /\ ReMatchFrom(p, i + 1, f, j + k)
              [] a = ReUdim ->
                    /\ j <= Len(f) /\ f[j] = "1" /\ AllDigits(f, j + 1, 3)
                    /\ ReMatchFrom(p, i + 1, f, j + 4)
              [] IsReDigits(a) ->
                    /\ AllDigits(f, j, ReCount(a))
                    /\ ReMatchFrom(p, i + 1, f, j + ReCount(a))
              [] a = "." -> j <= Len(f) /\ ReMatchFrom(p, i + 1, f, j + 1)
              [] OTHER -> j <= Len(f) /\ f[j] = a /\ ReMatchFrom(p, i + 1, f, j + 1)

match(p, f) == ReMatchFrom(p, 1, f, 1)

\* fnmatch of a name against a pattern whose only magic is '*'.
RECURSIVE FnMatchFrom(_, _, _, _)
FnMatchFrom(g, i, f, j) ==
    IF i > Len(g) THEN j > Len(f)
    ELSE IF g[i] = Star
         THEN \E k \in j..(Len(f) + 1) : FnMatchFrom(g, i + 1, f, k)
         ELSE j <= Len(f) /\ f[j] = g[i] /\ FnMatchFrom(g, i + 1, f, j + 1)

has_magic(g) == \E i \in 1..Len(g) : g[i] = Star

\* glob.glob(g) in one directory: a pattern without magic names itself when it
\* exists; otherwise the names that fnmatch it, hidden names (leading '.') only
\* for a pattern that starts with '.'.
glob(g, names) ==
    IF ~has_magic(g) THEN {f \in names : f = g}
    ELSE {f \in names :
            /\ FnMatchFrom(g, 1, f, 1)
            /\ (f # <<>> /\ f[1] = ".") => (g # <<>> /\ g[1] = ".")}

\* find_files(path), against the names on disk.
find_files(p, names) ==
    IF p \in names THEN <<p>>
    ELSE IF re_pattern(p) = p THEN <<>>
    ELSE sorted({f \in glob(glob_pattern(p), names) : match(re_pattern(p), f)})

\* Bounds of the find_files model: patterns are made of at most MaxPieces
\* pieces, file names have at most MaxFileLen characters.
MaxPieces == 3
MaxFileLen == 4

FindPieces == {<<"$", "F">>, <<"2">>, <<"#">>, <<"%", "0", "2", "d">>,
               <<"<UDIM>">>, <<"s">>, <<".">>}
FileChars == {"s", ".", "1"}

RECURSIVE Concat(_)
Concat(ps) == IF ps = <<>> THEN <<>> ELSE Head(ps) \o Concat(Tail(ps))

SeqsUpTo(S, n) == UNION {[1..k -> S] : k \in 0..n}

Patterns(pieces) == {Concat(ps) : ps \in SeqsUpTo(pieces, MaxPieces)}
FileNames == SeqsUpTo(FileChars, MaxFileLen) \ {<<>>}

\* Names that are on disk in every run.
BaseFiles == {<<"s", "1", "1">>, <<"s", "1">>}

FindInit ==
    /\ path \in Patterns(FindPieces) \ {<<>>}
    /\ \E f \in FileNames : disk = BaseFiles \cup {f}
    /\ found = NotFound
    /\ item = NoItem
    /\ template = ""

\* A call of find_files(path).
FindFilesCall ==
    /\ ~found.called
    /\ found' = [called |-> TRUE, files |-> find_files(path, disk)]
    /\ UNCHANGED <<path, disk, item, template>>
    /\ UNCHANGED notFiles

NextFind == FindFilesCall

FindStart == FindInit /\ ThreadInit /\ PrefsIdle /\ PluginIdle /\ ManagerIdle /\ WidgetIdle

SpecFind == FindStart /\ [][NextFind]_vars


\* The path holds a collection token: a substitution of find_files changes it.
HasToken(p) == re_pattern(p) # p

\* f is the pattern p with each token replaced by digits of the right shape:
\* N digits for $F<N>, a run of N '#' and %0<N>d, one or more digits for $F,
\* a four-digit number starting with 1 for <UDIM>; every other character of p
\* stands for itself, and nothing precedes or follows.
RECURSIVE ShapeFrom(_, _, _, _)
ShapeFrom(p, i, f, j) ==
    IF i > Len(p) THEN j > Len(f)
    ELSE IF p[i] = "<UDIM>"
         THEN /\ j <= Len(f) /\ f[j] = "1" /\ AllDigits(f, j + 1, 3)
              /\ ShapeFrom(p, i + 1, f, j + 4)
    ELSE IF MFrameDigit(p, i) > 0
         THEN /\ AllDigits(f, j, DigitVal(p[i + 2]))
              /\ ShapeFrom(p, i + 3, f, j + DigitVal(p[i + 2]))
    ELSE IF MFrame(p, i) > 0
         THEN \E k \in 1..(Len(f) - j + 1) :
                  AllDigits(f, j, k) /\ ShapeFrom(p, i + 2, f, j + k)
    ELSE IF MHashes(p, i) > 0
         THEN /\ AllDigits(f, j, HashRun(p, i))
              /\ ShapeFrom(p, i + HashRun(p, i), f, j + HashRun(p, i))
    ELSE IF MPadding(p, i) > 0
         THEN /\ AllDigits(f, j, DigitVal(p[i + 2]))
              /\ ShapeFrom(p, i + 4, f, j + DigitVal(p[i + 2]))
    ELSE j <= Len(f) /\ f[j] = p[i] /\ ShapeFrom(p, i + 1, f, j + 1)

HasShape(p, f) == ShapeFrom(p, 1, f, 1)

InTuple(f, t) == \E k \in 1..Len(t) : t[k] = f

FindFilesReturnsExactlyTheShapedFiles ==
    (found.called /\ path \notin disk) =>
        found.files = sorted({f \in disk : HasShape(path, f)})


(***************************************************************************)
(* pathmanager/houdini/host.py: HoudiniHost._get_item, expand_files        *)
(***************************************************************************)

MISSING == "missing"
FOUND == "found"
EXPRESSION == "expression"

\* The value of $HIP.
HipValue == <<"s">>

\* The value of $JOB.
JobValue == <<"/", "j">>

\* hou.text.expandString: a variable reference is replaced by its value.
expandString(text) ==
    LET M(s, i) == IF s[i] \in {"$HIP", "$JOB"} THEN 1 ELSE 0
        R(s, i) == IF s[i] = "$HIP" THEN HipValue ELSE JobValue
    IN sub(text, M, R)

\* HoudiniHost.expand_string(text) with expand_frame = False: $F is hidden as
\* <F> from expandString and put back.
expand_string(text) ==
    LET RSafe(s, i) == <<"<F>">>
        MBack(s, i) == IF s[i] = "<F>" THEN 1 ELSE 0
        RBack(s, i) == <<"$", "F">>
    IN sub(expandString(sub(text, MFrame, RSafe)), MBack, RBack)

\* Number of digits from position i on.
RECURSIVE DigitRun(_, _)
DigitRun(s, i) == IF i <= Len(s) /\ s[i] \in Digits THEN 1 + DigitRun(s, i + 1) ELSE 0

\* The pattern \$F\d*|<UDIM> at position i: braces are not read.
MCollection_unbraced(s, i) ==
    IF s[i] = "<UDIM>" THEN 1
    ELSE IF ~At(s, i, <<"$", "F">>) THEN 0
    ELSE 2 + DigitRun(s, i + 2)

\* The pattern \$F{?\d*}?|<UDIM> at position i.
MCollection(s, i) ==
    IF s[i] = "<UDIM>" THEN 1
    ELSE IF ~At(s, i, <<"$", "F">>) THEN 0
    ELSE LET b == IF At(s, i + 2, <<"{">>) THEN 1 ELSE 0
             d == DigitRun(s, i + 2 + b)
             e == IF At(s, i + 2 + b + d, <<"}">>) THEN 1 ELSE 0
         IN 2 + b + d + e

\* HoudiniHost.expand_files(path), against the names on disk.
expand_files(p, names) ==
    LET absolute_path == expand_string(p)
        pattern == sub(absolute_path, MCollection, RStar)
    IN sorted(glob(pattern, names))

\* The parm templates: a file reference, a regular string parm whose name
\* holds 'filepath', another regular string parm, a parm that is no string.
FileReference == "FileReference"
RegularFilepath == "Regular, 'filepath' in name"
RegularOther == "Regular"
OtherString == "another string type"
NotString == "not a StringParmTemplate"
Templates == {FileReference, RegularFilepath, RegularOther, OtherString, NotString}

\* HoudiniHost._get_item(node, parm): None or the Item.
\* (Item.path.expanded, parm.evalAtFrame(1), is shown as a tool tip only and
\* is not part of the record.)
_get_item(tmpl, raw, names) ==
    IF tmpl = NotString \/ raw = <<>> \/ tmpl \in {RegularOther, OtherString}
    THEN [called |-> TRUE, none |-> TRUE, status |-> "", raw |-> <<>>]
    ELSE [called |-> TRUE, none |-> FALSE, raw |-> raw,
          status |-> IF \E i \in 1..Len(raw) : raw[i] = "BACKTICK" THEN EXPRESSION
                     ELSE IF expand_files(raw, names) # <<>> THEN FOUND
                     ELSE MISSING]

\* Bounds of the scan model.
MaxRawPieces == 3
MaxNameLen == 3

RawPieces == {<<"$", "F">>, <<"4">>, <<"{">>, <<"}">>, <<"$", "F", "{", "4", "}">>,
              <<"<UDIM>">>, <<"s">>, <<".">>, <<"BACKTICK">>, <<"$HIP">>}
RawPaths == {Concat(ps) : ps \in SeqsUpTo(RawPieces, MaxRawPieces)}
ScanNames == SeqsUpTo({"s", ".", "4"}, MaxNameLen) \ {<<>>}

ScanInit ==
    /\ path \in RawPaths
    /\ template \in Templates
    /\ disk \in {{f} : f \in ScanNames}
    /\ found = NotFound
    /\ item = NoItem

\* HoudiniHost.get_items reaches the parm and calls _get_item.
GetItemCall ==
    /\ ~item.called
    /\ item' = _get_item(template, path, disk)
    /\ UNCHANGED <<path, disk, found, template>>
    /\ UNCHANGED notFiles

NextScan == GetItemCall

ScanStart == ScanInit /\ ThreadInit /\ PrefsIdle /\ PluginIdle /\ ManagerIdle /\ WidgetIdle

SpecScan == ScanStart /\ [][NextScan]_vars

\* The frame token as the claim names it: $F, $F<n> or $F{n}.
ClaimToken(s, i) ==
    IF s[i] = "<UDIM>" THEN 1
    ELSE IF ~At(s, i, <<"$", "F">>) THEN 0
    ELSE IF At(s, i + 2, <<"{">>) /\ DigitRun(s, i + 3) > 0
            /\ At(s, i + 3 + DigitRun(s, i + 3), <<"}">>)
         THEN 4 + DigitRun(s, i + 3)
    ELSE 2 + DigitRun(s, i + 2)

\* The frame token as expand_files reads it: $F, then '{' if there is one, then
\* the digits that follow, then '}' if there is one.
LooseToken(s, i) ==
    IF s[i] = "<UDIM>" THEN 1
    ELSE IF ~At(s, i, <<"$", "F">>) THEN 0
    ELSE LET a == IF i + 2 <= Len(s) /\ s[i + 2] = "{" THEN i + 3 ELSE i + 2
             b == a + DigitRun(s, a)
         IN (IF b <= Len(s) /\ s[b] = "}" THEN b + 1 ELSE b) - i

\* The name f is the raw path p with $HIP expanded and every token (Token
\* gives the length of the token at a position, 0 for none) standing for any
\* text.
WildFrom(p, i, f, j, Token(_, _)) ==
    LET RECURSIVE Go(_, _)
        Go(a, b) ==
            IF a > Len(p) THEN b > Len(f)
            ELSE IF Token(p, a) > 0
                 THEN \E k \in b..(Len(f) + 1) : Go(a + Token(p, a), k)
            ELSE IF p[a] = "$HIP"
                 THEN At(f, b, HipValue) /\ Go(a + 1, b + Len(HipValue))
            ELSE b <= Len(f) /\ f[b] = p[a] /\ Go(a + 1, b + 1)
    IN Go(i, j)

\* A wildcard at the start of a name does not stand for a leading '.'.
Hidden(p, f) == f[1] = "." /\ expand_string(p)[1] # "."

\* Some file on disk matches the raw path with its tokens as wildcards.
SomeFileMatches(p, Token(_, _)) ==
    \E f \in disk :
        /\ WildFrom(p, 1, f, 1, Token)
        /\ (\E i \in 1..Len(p) : Token(p, i) > 0) => ~Hidden(p, f)

StatusIs(Token(_, _)) ==
    item.called =>
        IF item.none
        THEN path = <<>> \/ template \in {NotString, RegularOther, OtherString}
        ELSE /\ item.raw = path /\ path # <<>>
             /\ item.status \in {EXPRESSION, FOUND, MISSING}
             /\ item.status = EXPRESSION <=> (\E i \in 1..Len(path) : path[i] = "BACKTICK")
             /\ item.status = FOUND <=>
                    /\ ~(\E i \in 1..Len(path) : path[i] = "BACKTICK")
                    /\ SomeFileMatches(path, Token)

\* C3 (as stated): every scanned item has a non-empty raw path and one status:
\* EXPRESSION iff the raw path holds a backtick; otherwise FOUND iff a file on
\* disk matches the expanded raw path with every $F, $F<n>, $F{n} and <UDIM>
\* replaced by a wildcard; otherwise MISSING.
StatusByClaimTokens == StatusIs(ClaimToken)

\* C3 (amended): the same, the frame token being $F followed by an optional
\* '{', any digits and an optional '}' (so also $F{4 and $F4} and $F}).
StatusByLooseTokens == StatusIs(LooseToken)

\* C3 witness: an item with a $F{n} token was scanned and found on disk.
BracedTokenFound ==
    /\ item.called /\ ~item.none /\ item.status = FOUND
    /\ \E i \in 1..Len(path) : At(path, i, <<"$", "F", "{", "4", "}">>)


(***************************************************************************)
(* pathmanager/storage.py and the browser preferences                      *)
(* (ui/manager.py, widgets/browser.py, widgets/filter.py, tree.py)         *)
(***************************************************************************)

\* How often the user changes the browser.
MaxEdits == 2

\* Python values: None, a str, a set, a tuple, a list (of names).
PyNone == [t |-> "None", s |-> "", q |-> <<>>, e |-> {}]
PyStr(x) == [t |-> "str", s |-> x, q |-> <<>>, e |-> {}]
PySet(S) == [t |-> "set", s |-> "", q |-> <<>>, e |-> S]
PyTuple(q) == [t |-> "tuple", s |-> "", q |-> q, e |-> {}]
PyList(q) == [t |-> "list", s |-> "", q |-> q, e |-> {}]

\* tuple(a set): its members in the order the iteration gives.
AsSeq(S) == CHOOSE q \in [1..Cardinality(S) -> S] : {q[i] : i \in 1..Cardinality(S)} = S

\* set(a sequence)
AsSet(q) == {q[i] : i \in 1..Len(q)}

\* The columns PathManager._init_ui adds, in order.
Columns == <<"parm_name", "parm_type", "node_path", "node_type.category",
             "node_type.name", "status", "path", "preview">>
ColumnNames == AsSet(Columns)
StyledColumns == {"parm_type", "status"}
BasicColumns == {"parm_name", "node_path", "node_type.category", "node_type.name", "path"}
FilterColumns == StyledColumns \cup BasicColumns

\* add_column(..., visible=...)
DefaultVisible ==
    [c \in ColumnNames |-> c \in {"parm_name", "status", "path", "preview"}]

\* FilterWidget._default: what the StringParameter of a BasicFilterWidget
\* gives, the empty set of a MultiFilterWidget.
Default(c) == IF c \in StyledColumns THEN PySet({}) ELSE PyStr("")

\* Filter() of a new widget: value None (BasicFilterWidget), set()
\* (MultiFilterWidget), not inverted.
NewFilters ==
    [c \in FilterColumns |->
        [value |-> IF c \in StyledColumns THEN PySet({}) ELSE PyNone,
         inverted |-> FALSE]]

\* What the user types into a BasicFilterWidget and checks in a StyledFilterWidget.
Texts == {"", "a"}
Names(c) == IF c = "status" THEN {"found", "missing"} ELSE {"file"}

\* FilterWidget.state / StyledFilterWidget.state
WidgetState(c, f) ==
    [value |-> IF c \in StyledColumns THEN PyTuple(AsSeq(f.value.e)) ELSE f.value,
     inverted |-> f.inverted,
     match |-> PyNone]

\* FilterWidget.set_state / StyledFilterWidget.set_state on a widget holding
\* f: the Filter afterwards.
WidgetSetState(c, f, st) ==
    IF c \in StyledColumns
    THEN \* tuple(StyledItem(v) for v in state.value), MultiFilterWidget.set_value
         [value |-> PySet(AsSet(st.value.q)), inverted |-> st.inverted]
    ELSE IF st.value.t = "None"
         THEN \* reset()
              [value |-> Default(c), inverted |-> FALSE]
         ELSE [value |-> st.value, inverted |-> st.inverted]

\* The state dict of _save_preferences: {'browser': asdict(browser.state())}
\* (splitter_sizes, which is outside the preferences compared here, left out).
BrowserState(vis, flt) ==
    [browser |-> TRUE,
     column_visibility |-> vis,
     filters |-> [c \in FilterColumns |-> WidgetState(c, flt[c])]]

\* {}
EmptyState == [browser |-> FALSE, column_visibility |-> <<>>, filters |-> <<>>]

\* json.dump followed by json.load: a tuple comes back as a list.
json_value(v) == IF v.t = "tuple" THEN PyList(v.q) ELSE v
json(st) ==
    [st EXCEPT !.filters =
        [c \in DOMAIN st.filters |->
            [st.filters[c] EXCEPT !.value = json_value(st.filters[c].value)]]]

\* json.dump raises TypeError for a set.
serializable(st) == \A c \in DOMAIN st.filters : st.filters[c].value.t # "set"

\* The state file.
NoFile == [kind |-> "absent", data |-> EmptyState]
Damages == {"absent", "unreadable", "malformed text", "undecodable bytes"}

\* JSONStorage.read: the exception or the value.
read(f) ==
    IF f.kind \in {"absent", "unreadable"} THEN [exc |-> "OSError", value |-> EmptyState]
    ELSE IF f.kind = "undecodable bytes"
         THEN [exc |-> "UnicodeDecodeError", value |-> EmptyState]
    ELSE IF f.kind \in {"malformed text", "truncated"}
         THEN [exc |-> "JSONDecodeError", value |-> EmptyState]
    ELSE [exc |-> "", value |-> f.data]

\* Storage.get_state: OSError and JSONDecodeError are swallowed.
get_state(f) ==
    IF read(f).exc \in {"OSError", "JSONDecodeError"}
    THEN [exc |-> "", value |-> EmptyState]
    ELSE read(f)

\* JSONStorage.write: open(path, 'w') fails where the file cannot be written,
\* else the file is emptied and json.dump writes into it.
write(data, f, writable) ==
    IF ~writable THEN [exc |-> "OSError", file |-> f]
    ELSE IF ~serializable(data)
         THEN [exc |-> "TypeError", file |-> [kind |-> "truncated", data |-> EmptyState]]
    ELSE [exc |-> "", file |-> [kind |-> "json", data |-> json(data)]]

\* Storage.set_state: OSError and ValueError are swallowed.
set_state(data, f, writable) ==
    IF write(data, f, writable).exc \in {"OSError", "ValueError"}
    THEN [exc |-> "", file |-> f]
    ELSE write(data, f, writable)

\* FilterBrowser.set_state on a new browser.
BrowserSetState(st) ==
    [visible |->
        [c \in ColumnNames |->
            IF c \in DOMAIN st.column_visibility /\ ~st.column_visibility[c]
            THEN FALSE
            ELSE DefaultVisible[c]],
     filters |->
        [c \in FilterColumns |->
            IF c \in DOMAIN st.filters
            THEN WidgetSetState(c, NewFilters[c], st.filters[c])
            ELSE NewFilters[c]]]

\* The first panel, opened without a state file.
PrefsInit ==
    /\ visible = DefaultVisible
    /\ filters = NewFilters
    /\ file = NoFile
    /\ panel = "open"
    /\ at_close = [valid |-> FALSE, visible |-> DefaultVisible, filters |-> NewFilters]
    /\ stored = [called |-> FALSE, ok |-> FALSE, state |-> EmptyState]
    /\ got = [called |-> TRUE, value |-> EmptyState]
    /\ raised = ""
    /\ edits = 0

Edited ==
    /\ panel \in {"open", "reopened"}
    /\ edits < MaxEdits
    /\ edits' = edits + 1
    /\ panel' = "open"
    /\ UNCHANGED <<file, at_close, stored, got, raised>>
    /\ UNCHANGED notPrefs

\* Browser._column_selection_changed: the user checks or unchecks column c
\* in the columns menu.
_column_selection_changed(c) ==
    /\ Edited
    /\ visible' = [visible EXCEPT ![c] = ~@]
    /\ UNCHANGED filters

\* The user types into the BasicFilterWidget of column c: FilterWidget.set_value.
BasicSetValue(c, text) ==
    /\ Edited
    /\ filters[c].value # PyStr(text)
    /\ filters' = [filters EXCEPT ![c].value = PyStr(text)]
    /\ UNCHANGED visible

\* MultiFilterWidget._checkbox_toggled: the user toggles the checkbox of n.
_checkbox_toggled(c, n) ==
    /\ Edited
    /\ filters' = [filters EXCEPT ![c].value =
                      PySet(IF n \in @.e THEN @.e \ {n} ELSE @.e \cup {n})]
    /\ UNCHANGED visible

\* FilterWidget.set_inverted from the invert button.
set_inverted(c) ==
    /\ Edited
    /\ filters' = [filters EXCEPT ![c].inverted = ~@]
    /\ UNCHANGED visible

\* PathManager.closeEvent: _save_preferences, Storage().set_state(state).
closeEvent(writable) ==
    /\ panel \in {"open", "reopened"}
    /\ LET data == BrowserState(visible, filters)
           r == set_state(data, file, writable)
       IN /\ file' = r.file
          /\ raised' = r.exc
          /\ stored' = [called |-> TRUE, ok |-> writable /\ r.exc = "", state |-> data]
          /\ at_close' = [valid |-> writable /\ r.exc = "",
                          visible |-> visible, filters |-> filters]
    /\ panel' = "closed"
    /\ UNCHANGED <<visible, filters, got, edits>>
    /\ UNCHANGED notPrefs

\* Between two panels something else changes the state file.
Damage(k) ==
    /\ panel \in {"closed", "failed"}
    /\ file.kind # k
    /\ file' = [kind |-> k, data |-> EmptyState]
    /\ at_close' = [at_close EXCEPT !.valid = FALSE]
    /\ UNCHANGED <<visible, filters, panel, stored, got, raised, edits>>
    /\ UNCHANGED notPrefs

\* PathManager.__init__: _init_ui, _load_preferences (Storage().get_state(),
\* browser.set_state), _load_items (which keeps the filter values:
\* FilterListWidget.refresh_column sets the value back).
PathManagerInit ==
    /\ panel \in {"closed", "failed"}
    /\ LET r == get_state(file)
           b == BrowserSetState(r.value)
       IN /\ raised' = r.exc
          /\ got' = [called |-> TRUE, value |-> r.value]
          /\ IF r.exc # ""
             THEN /\ panel' = "failed"
                  /\ visible' = DefaultVisible
                  /\ filters' = NewFilters
             ELSE /\ panel' = IF at_close.valid THEN "reopened" ELSE "open"
                  /\ visible' = b.visible
                  /\ filters' = b.filters
    /\ UNCHANGED <<file, at_close, stored, edits>>
    /\ UNCHANGED notPrefs

NextPrefs ==
    \/ \E c \in ColumnNames : _column_selection_changed(c)
    \/ \E c \in BasicColumns : \E text \in Texts : BasicSetValue(c, text)
    \/ \E c \in StyledColumns : \E n \in Names(c) : _checkbox_toggled(c, n)
    \/ \E c \in FilterColumns : set_inverted(c)
    \/ \E writable \in BOOLEAN : closeEvent(writable)
    \/ \E k \in Damages : Damage(k)
    \/ PathManagerInit

PrefsStart == PrefsInit /\ ThreadInit /\ FilesIdle /\ PluginIdle /\ ManagerIdle /\ WidgetIdle

SpecPrefs == PrefsStart /\ [][NextPrefs]_vars

\* C8: Storage.get_state never raises for a missing, unreadable or malformed
\* state file: it returns what the last successful set_state stored (the
\* content of the file), or {} when the file cannot be read or decoded; and
\* set_state does not raise when the file cannot be written.
GetStateNeverRaises ==
    /\ raised = ""
    /\ (got.called /\ panel \in {"open", "reopened"}) =>
           got.value = IF file.kind = "json" THEN file.data ELSE EmptyState

\* The same filter value; a filter that was never touched (None) and one that
\* holds the default of its widget count as the same.
SameValue(c, a, b) == a = b \/ {a, b} \subseteq {PyNone, Default(c)}

\* C9: a panel opened after a panel was closed has, for every column, the
\* visibility it had at close time, and every column filter has the value and
\* the inverted flag it had at close.
ReopenedPanelHasThePreferencesAtClose ==
    panel = "reopened" =>
        /\ visible = at_close.visible
        /\ \A c \in FilterColumns :
               /\ SameValue(c, filters[c].value, at_close.filters[c].value)
               /\ filters[c].inverted = at_close.filters[c].inverted


(***************************************************************************)
(* pathmanager/plugins/replace.py, schema.Item.set_preview                 *)
(***************************************************************************)

\* Characters that are written as symbols: the backslash, a character outside
\* ASCII (U+00E9), the newline.
BACKSLASH == "BACKSLASH"
E_ACUTE == "e_acute"
NEWLINE == "NEWLINE"

\* Atoms of a compiled pattern besides the literal characters: '.' (with
\* DOTALL in a translated wildcard pattern) and the '*' of fnmatch.
ANY == "ANY"
STAR == "STAR"

AsciiLetters == {"a", "A", "Z", "x", "e", "n", "g"}

\* str.lower, for re.IGNORECASE
Lower(c) == IF c = "A" THEN "a" ELSE IF c = "Z" THEN "z" ELSE c

\* fnmatch.translate(search)[:-2]: '*' is a star (a run of '*' is one star),
\* '?' any character, every other character stands for itself.
translate(search) ==
    LET RECURSIVE Go(_)
        Go(i) == IF i > Len(search) THEN <<>>
                 ELSE IF search[i] = "*"
                      THEN (IF i > 1 /\ search[i - 1] = "*" THEN <<>> ELSE <<STAR>>) \o Go(i + 1)
                 ELSE IF search[i] = "?" THEN <<ANY>> \o Go(i + 1)
                 ELSE <<search[i]>> \o Go(i + 1)
    IN Go(1)

\* re.compile(search): '.' is any character, an unclosed '(' is a re.error.
compile(search) ==
    [err |-> \E i \in 1..Len(search) : search[i] = "(",
     atoms |-> [i \in 1..Len(search) |-> IF search[i] = "." THEN ANY ELSE search[i]]]

\* replace.encode('unicode_escape').decode('ascii')
unicode_escape(text) ==
    LET M(s, i) == IF s[i] \in {BACKSLASH, E_ACUTE, NEWLINE} THEN 1 ELSE 0
        R(s, i) == IF s[i] = BACKSLASH THEN <<BACKSLASH, BACKSLASH>>
                   ELSE IF s[i] = NEWLINE THEN <<BACKSLASH, "n">>
                   ELSE <<BACKSLASH, "x", "e", "9">>
    IN sub(text, M, R)

\* The end of the group reference \g<name> that starts at position i of the
\* template t (the backslash): the position of '>', 0 when it is not well formed.
GroupRefEnd(t, i) ==
    IF ~At(t, i, <<BACKSLASH, "g", "<">>) THEN 0
    ELSE LET ends == {j \in (i + 4)..Len(t) : t[j] = ">"}
         IN IF ends = {} THEN 0 ELSE CHOOSE j \in ends : \A k \in ends : j <= k

\* What parse_template raises besides re.error: a \g<name> whose name is an
\* identifier that is no group of the pattern is an IndexError ('unknown group
\* name'); the patterns of this model have no groups.  The template is read
\* from the left, so an earlier re.error wins, and the tokenizer reads one
\* token ahead, so a backslash that ends the template right after the '>' is
\* the re.error 'bad escape (end of pattern)' before the name is looked up.
RECURSIVE template_raises(_, _)
template_raises(t, i) ==
    IF i > Len(t) THEN ""
    ELSE IF t[i] # BACKSLASH THEN template_raises(t, i + 1)
    ELSE IF i = Len(t) THEN ""
    ELSE IF t[i + 1] = BACKSLASH THEN template_raises(t, i + 2)
    ELSE IF t[i + 1] = "g" /\ GroupRefEnd(t, i) # 0 /\ t[i + 3] \notin Digits
         THEN IF GroupRefEnd(t, i) + 1 = Len(t) /\ t[Len(t)] = BACKSLASH
              THEN ""
              ELSE "IndexError"
    ELSE IF t[i + 1] \in AsciiLetters \cup Digits /\ t[i + 1] # "n" THEN ""
    ELSE template_raises(t, i + 2)

\* The replacement template as pattern.sub reads it (for a pattern without
\* groups): \\ is a backslash, \n a newline, a backslash before another ASCII
\* letter, before a digit or at the end is a re.error, a backslash before
\* anything else stays.
parse_template(t) ==
    LET RECURSIVE Go(_)
        Go(i) ==
            IF i > Len(t) THEN [err |-> FALSE, text |-> <<>>]
            ELSE IF t[i] # BACKSLASH
                 THEN [err |-> Go(i + 1).err, text |-> <<t[i]>> \o Go(i + 1).text]
            ELSE IF i = Len(t) THEN [err |-> TRUE, text |-> <<>>]
            ELSE IF t[i + 1] = BACKSLASH
                 THEN [err |-> Go(i + 2).err, text |-> <<BACKSLASH>> \o Go(i + 2).text]
            ELSE IF t[i + 1] = "n"
                 THEN [err |-> Go(i + 2).err, text |-> <<NEWLINE>> \o Go(i + 2).text]
            ELSE IF t[i + 1] \in AsciiLetters \cup Digits THEN [err |-> TRUE, text |-> <<>>]
            ELSE [err |-> Go(i + 2).err,
                  text |-> <<BACKSLASH, t[i + 1]>> \o Go(i + 2).text]
    IN Go(1)

\* One atom against one character; ic is re.IGNORECASE.
AtomMatches(a, c, ic) == a = ANY \/ (IF ic THEN Lower(a) = Lower(c) ELSE a = c)

\* The atoms k..m (no star among them) from position i of s: the position
\* after the match, 0 for no match.
RECURSIVE FixedEnd(_, _, _, _, _, _)
FixedEnd(atoms, k, m, s, i, ic) ==
    IF k > m THEN i
    ELSE IF i > Len(s) \/ ~AtomMatches(atoms[k], s[i], ic) THEN 0
    ELSE FixedEnd(atoms, k + 1, m, s, i + 1, ic)

\* The last atom of the run without a star that begins at k.
RECURSIVE RunEnd(_, _)
RunEnd(atoms, k) ==
    IF k > Len(atoms) \/ atoms[k] = STAR THEN k - 1 ELSE RunEnd(atoms, k + 1)

\* The pattern from atom k on at position i of s: the position after the
\* match, 0 for no match.  A star before the last run is '.*' with
\* backtracking (the longest match); a star before an earlier run is the
\* atomic (?>.*?run), the shortest match and no other.
RECURSIVE MatchEnd(_, _, _, _, _)
MatchEnd(atoms, k, s, i, ic) ==
    IF k > Len(atoms) THEN i
    ELSE IF atoms[k] # STAR
         THEN IF i <= Len(s) /\ AtomMatches(atoms[k], s[i], ic)
              THEN MatchEnd(atoms, k + 1, s, i + 1, ic)
              ELSE 0
    ELSE LET m == RunEnd(atoms, k + 1)
             starts == {j \in i..(Len(s) + 1) : FixedEnd(atoms, k + 1, m, s, j, ic) # 0}
             longest == CHOOSE j \in starts : \A h \in starts : h <= j
             shortest == CHOOSE j \in starts : \A h \in starts : h >= j
         IN IF starts = {} THEN 0
            ELSE IF m = Len(atoms) THEN FixedEnd(atoms, k + 1, m, s, longest, ic)
            ELSE MatchEnd(atoms, m + 1, s, FixedEnd(atoms, k + 1, m, s, shortest, ic), ic)

\* pattern.sub(repl, s), repl being the text of the template: the matches
\* from left to right, an empty match also right after a match.
pattern_sub(atoms, repl, s, ic) ==
    LET RECURSIVE Go(_)
        Go(i) ==
            IF i > Len(s) + 1 THEN <<>>
            ELSE LET e == MatchEnd(atoms, 1, s, i, ic)
                     rest == IF i <= Len(s) THEN <<s[i]>> \o Go(i + 1) ELSE <<>>
                 IN IF e = 0 THEN rest
                    ELSE IF e = i THEN repl \o rest
                    ELSE repl \o Go(e)
    IN Go(1)

\* Item.set_preview(path): preview.raw afterwards.
set_preview(raw, new_path) ==
    IF new_path = raw THEN <<>>
    ELSE LET M(s, i) == IF s[i] = BACKSLASH THEN 1 ELSE 0
             R(s, i) == <<"/">>
         IN sub(new_path, M, R)

\* ReplacePlugin.preview for one item: the item afterwards.
ReplacePlugin_preview(it, v) ==
    IF v.search = <<>> THEN it
    ELSE LET pattern == IF v.regex THEN compile(v.search)
                        ELSE [err |-> FALSE, atoms |-> translate(v.search)]
             replace == IF v.regex THEN v.replace ELSE unicode_escape(v.replace)
             repl == parse_template(replace)
         IN IF pattern.err \/ repl.err THEN it
            ELSE [it EXCEPT !.preview =
                     set_preview(it.raw,
                                 pattern_sub(pattern.atoms, repl.text, it.raw,
                                             ~v.match_case))]

\* ReplacePlugin.preview(items, kwargs): the items afterwards and the exception
\* that leaves the method.  pattern.sub reads the template before it looks for
\* a match, so an exception that is no re.error leaves the loop at the first
\* item.
ReplacePlugin_run(its, v) ==
    LET replace == IF v.regex THEN v.replace ELSE unicode_escape(v.replace)
        compiled == v.search # <<>> /\ ~(v.regex /\ compile(v.search).err)
    IN IF compiled /\ its # <<>> /\ template_raises(replace, 1) # ""
       THEN [items |-> its, raised |-> template_raises(replace, 1)]
       ELSE [items |-> [i \in 1..Len(its) |-> ReplacePlugin_preview(its[i], v)],
             raised |-> ""]

\* Bounds of the replace model.
MaxRawLen == 3
MaxSearchLen == 2
MaxReplaceLen == 2

RawChars == {"a", "A", ".", BACKSLASH}
WildcardChars == {"a", ".", "*", "?"}
RegexChars == {"a", ".", "("}
ReplaceChars == {"Z", BACKSLASH, E_ACUTE}

ReplaceValues ==
    {[search |-> se, replace |-> r, regex |-> x, match_case |-> mc] :
        se \in SeqsUpTo(WildcardChars \cup RegexChars, MaxSearchLen),
        r \in SeqsUpTo(ReplaceChars, MaxReplaceLen),
        x \in BOOLEAN, mc \in BOOLEAN}

ReplaceInit ==
    /\ \E raw \in SeqsUpTo(RawChars, MaxRawLen) \ {<<>>} :
       \E status \in {MISSING, FOUND, EXPRESSION} :
           items = <<[raw |-> raw, status |-> status, preview |-> <<>>]>>
    /\ values \in {v \in ReplaceValues :
                      \A i \in 1..Len(v.search) :
                          v.search[i] \in IF v.regex THEN RegexChars ELSE WildcardChars}
    /\ previewed = FALSE
    /\ preview_error = ""
    /\ versions_cache = <<>>

\* ReplacePlugin.preview(items, kwargs)
ReplacePreview ==
    /\ ~previewed
    /\ previewed' = TRUE
    /\ items' = ReplacePlugin_run(items, values).items
    /\ preview_error' = ReplacePlugin_run(items, values).raised
    /\ UNCHANGED versions_cache
    /\ UNCHANGED values
    /\ UNCHANGED notPlugin

NextReplace == ReplacePreview

ReplaceStart == ReplaceInit /\ ThreadInit /\ FilesIdle /\ PrefsIdle /\ ManagerIdle /\ WidgetIdle

SpecReplace == ReplaceStart /\ [][NextReplace]_vars

\* C10: ReplacePlugin.preview with a non-empty search sets, for every item
\* whatever its status, the preview to the raw path with every match of the
\* search replaced by the replacement (through Item.set_preview); the search is
\* a regular expression in regex mode and a wildcard pattern otherwise,
\* matching ignores case unless match_case is set, and in non-regex mode the
\* replacement is inserted as it is written.  With an empty search no preview
\* is set.
ReplacePreviewReplacesEveryMatch ==
    previewed =>
        \A i \in 1..Len(items) :
            LET it == items[i]
                ic == ~values.match_case
            IN IF values.search = <<>> THEN it.preview = <<>>
               ELSE IF ~values.regex
                    THEN it.preview =
                             set_preview(it.raw,
                                         pattern_sub(translate(values.search),
                                                     values.replace, it.raw, ic))
               ELSE (~compile(values.search).err /\ ~parse_template(values.replace).err) =>
                        it.preview =
                            set_preview(it.raw,
                                        pattern_sub(compile(values.search).atoms,
                                                    parse_template(values.replace).text,
                                                    it.raw, ic))

\* ---------------------------------------------------------------------------
\* ui/manager.py: the PathManager panel over the scene of the host.
\* The plugin of the panel is 'replace'; the tree shows the items flat or
\* grouped by node type, filtered by the filter of the 'path' column.
\* ---------------------------------------------------------------------------

\* Bounds of the panel model.
MaxSceneEdits == 2

Parms == <<"p1", "p2">>
ParmSet == {Parms[i] : i \in 1..Len(Parms)}
SceneRaws == {<<"a">>, <<"b">>}
ManagerDisk == {<<"a">>}

\* Item.node_type.name of the node that holds the parm.
node_type(p) == IF p = "p1" THEN "file" ELSE "alembic"

\* Parameters.values() of the panel: the defaults and two search/replace pairs.
DefaultValues == [search |-> <<>>, replace |-> <<>>, regex |-> FALSE, match_case |-> FALSE]
ManagerValues ==
    {DefaultValues,
     [search |-> <<"a">>, replace |-> <<"b">>, regex |-> FALSE, match_case |-> FALSE],
     [search |-> <<"b">>, replace |-> <<"a">>, regex |-> FALSE, match_case |-> FALSE]}

\* The Filter of the 'path' column: match is operator.contains on the display text.
PathFilters == {[value |-> v, inverted |-> inv] : v \in {<<>>, <<"a">>}, inv \in BOOLEAN}

\* operator.contains(text, value) on strings
contains(text, value) ==
    \E i \in 0..(Len(text) - Len(value)) :
        \A k \in 1..Len(value) : text[i + k] = value[k]

\* Filter.accepts(value) for a display text (never None: PathField shows '' for
\* a row without a path).
accepts(f, text) ==
    IF f.value = <<>> THEN TRUE
    ELSE contains(text, f.value) # f.inverted

\* Container(): the row of a group; it has no path and no preview.
Container(t) ==
    [kind |-> "Container", parm |-> t, raw |-> <<>>, status |-> "", preview |-> <<>>,
     node_type |-> t]

\* HoudiniHost.get_items(): the items of the parms of the scene, in node order.
RECURSIVE get_items_from(_, _)
get_items_from(sc, i) ==
    IF i > Len(Parms) THEN <<>>
    ELSE LET p == Parms[i]
             r == _get_item(FileReference, sc[p].raw, ManagerDisk)
         IN (IF sc[p].exists /\ ~r.none
             THEN <<[kind |-> "Item", parm |-> p, raw |-> r.raw, status |-> r.status,
                     preview |-> <<>>, node_type |-> node_type(p)]>>
             ELSE <<>>) \o get_items_from(sc, i + 1)

get_items(sc) == get_items_from(sc, 1)

\* PathManager._preview_items(): every preview is reset, then the plugin previews.
_preview_items(its, v) ==
    [i \in 1..Len(its) |-> ReplacePlugin_preview([its[i] EXCEPT !.preview = <<>>], v)]

\* PathManager._load_items(): the items of the browser afterwards.
_load_items(sc, v) == _preview_items(get_items(sc), v)

\* The node types of the items, in order of first appearance (Browser._update_group).
RECURSIVE group_values(_, _)
group_values(its, i) ==
    IF i > Len(its) THEN <<>>
    ELSE LET rest == group_values(its, i + 1)
             Other(t) == t # its[i].node_type
         IN <<its[i].node_type>> \o SelectSeq(rest, Other)

\* Browser.visible_elements(): the rows the proxy model accepts, top down.  In a
\* grouped tree the rows of the groups are Containers, and the rows below a
\* Container that the proxy rejects are hidden with it.
RECURSIVE visible_groups(_, _, _, _)
visible_groups(its, f, ts, i) ==
    IF i > Len(ts) THEN <<>>
    ELSE LET InGroup(it) == it.node_type = ts[i] /\ accepts(f, it.raw)
         IN (IF accepts(f, <<>>)
             THEN <<Container(ts[i])>> \o SelectSeq(its, InGroup)
             ELSE <<>>) \o visible_groups(its, f, ts, i + 1)

visible_elements(its, f, g) ==
    IF g THEN visible_groups(its, f, group_values(its, 1), 1)
    ELSE LET Shown(it) == accepts(f, it.raw)
         IN SelectSeq(its, Shown)

\* Browser.selected_elements(): the selected rows (a Container is disabled and
\* cannot be selected).
selected_elements(its, sel) ==
    LET Selected(it) == it.parm \in sel
    IN SelectSeq(its, Selected)

\* The parms of the rows a user can select.
Selectable(its, f, g) ==
    LET rows == visible_elements(its, f, g)
    IN {rows[i].parm : i \in {k \in 1..Len(rows) : rows[k].kind = "Item"}}

\* HoudiniHost.update_items(items): the scene afterwards, the parms set in
\* order, and whether the loop raised (a Container has no attribute 'preview').
RECURSIVE update_items_from(_, _, _, _)
update_items_from(rows, i, sc, written) ==
    IF i > Len(rows) THEN [scene |-> sc, written |-> written, raised |-> FALSE]
    ELSE IF rows[i].kind = "Container"
         THEN [scene |-> sc, written |-> written, raised |-> TRUE]
    ELSE IF rows[i].preview = <<>> THEN update_items_from(rows, i + 1, sc, written)
    ELSE IF ~sc[rows[i].parm].exists THEN update_items_from(rows, i + 1, sc, written)
    ELSE update_items_from(rows, i + 1,
                           [sc EXCEPT ![rows[i].parm].raw = rows[i].preview],
                           Append(written, rows[i].parm))

update_items(rows, sc) == update_items_from(rows, 1, sc, <<>>)

\* The steps of _commit_items in the order of its statements, with the rescan
\* before the plugin and the writes.
commit_steps_rescan_first(upd) ==
    (IF upd.raised THEN <<"AttributeError">> ELSE <<"get_items", "preview">>)
    \o <<"process">> \o upd.written

\* The steps of _commit_items in the order of its statements: plugin.process,
\* the parm.set calls of update_items, then _load_items unless update_items raised.
commit_steps(upd) ==
    <<"process">> \o upd.written
    \o (IF upd.raised THEN <<"AttributeError">> ELSE <<"get_items", "preview">>)

NotCommitted ==
    [done |-> FALSE, selected |-> FALSE, scene |-> <<>>, items |-> <<>>,
     rows |-> <<>>, selection |-> {},
     path_filter |-> [value |-> <<>>, inverted |-> FALSE]]

\* PathManager.__init__ over a scene: default parameters, 'Preview' checked, a
\* flat tree without filters, and the items loaded.
ManagerInit ==
    /\ scene \in [ParmSet -> [exists : {TRUE}, raw : SceneRaws \cup {<<>>}]]
    /\ values = DefaultValues
    /\ items = _load_items(scene, values)
    /\ previewed = FALSE
    /\ preview_error = ""
    /\ versions_cache = <<>>
    /\ group = FALSE
    /\ path_filter = [value |-> <<>>, inverted |-> FALSE]
    /\ selection = {}
    /\ preview_button = TRUE
    /\ before = NotCommitted
    /\ log = <<>>
    /\ scene_edits = 0

\* The user sets a parm in the host, outside the panel.
SceneSet(p, r) ==
    /\ scene_edits < MaxSceneEdits
    /\ scene[p].exists
    /\ scene[p].raw # r
    /\ scene' = [scene EXCEPT ![p].raw = r]
    /\ scene_edits' = scene_edits + 1
    /\ UNCHANGED <<items, values, previewed, preview_error, versions_cache, group, path_filter, selection, preview_button>>
    /\ before' = NotCommitted /\ log' = <<>>
    /\ UNCHANGED notManager

\* The user deletes the node of a parm in the host.
SceneDelete(p) ==
    /\ scene_edits < MaxSceneEdits
    /\ scene[p].exists
    /\ scene' = [scene EXCEPT ![p].exists = FALSE]
    /\ scene_edits' = scene_edits + 1
    /\ UNCHANGED <<items, values, previewed, preview_error, versions_cache, group, path_filter, selection, preview_button>>
    /\ before' = NotCommitted /\ log' = <<>>
    /\ UNCHANGED notManager

\* Parameters.parameter_changed -> PathManager._values_changed
_values_changed(v) ==
    /\ v # values
    /\ values' = v
    /\ items' = IF preview_button THEN _preview_items(items, v) ELSE items
    /\ UNCHANGED <<scene, previewed, preview_error, versions_cache, group, path_filter, selection, preview_button, scene_edits>>
    /\ before' = NotCommitted /\ log' = <<>>
    /\ UNCHANGED notManager

\* preview_button.toggled -> PathManager._values_changed
preview_toggled ==
    /\ preview_button' = ~preview_button
    /\ items' = IF preview_button' THEN _preview_items(items, values) ELSE items
    /\ UNCHANGED <<scene, values, previewed, preview_error, versions_cache, group, path_filter, selection, scene_edits>>
    /\ before' = NotCommitted /\ log' = <<>>
    /\ UNCHANGED notManager

\* toolbar.group_changed -> Browser.set_group: the model is cleared and rebuilt.
set_group ==
    /\ group' = ~group
    /\ selection' = {}
    /\ UNCHANGED <<scene, items, values, previewed, preview_error, versions_cache, path_filter, preview_button, scene_edits>>
    /\ before' = NotCommitted /\ log' = <<>>
    /\ UNCHANGED notManager

\* The filter of the 'path' column changes; hidden rows leave the selection.
filter_changed(f) ==
    /\ f # path_filter
    /\ path_filter' = f
    /\ selection' = selection \cap Selectable(items, f, group)
    /\ UNCHANGED <<scene, items, values, previewed, preview_error, versions_cache, group, preview_button, scene_edits>>
    /\ before' = NotCommitted /\ log' = <<>>
    /\ UNCHANGED notManager

\* The user selects rows of the tree.
select(sel) ==
    /\ sel # selection
    /\ sel \subseteq Selectable(items, path_filter, group)
    /\ selection' = sel
    /\ UNCHANGED <<scene, items, values, previewed, preview_error, versions_cache, group, path_filter, preview_button, scene_edits>>
    /\ before' = NotCommitted /\ log' = <<>>
    /\ UNCHANGED notManager

\* PathManager.reload / browser.model_expired -> _load_items
reload ==
    /\ items' = _load_items(scene, values)
    /\ selection' = {}
    /\ UNCHANGED <<scene, values, previewed, preview_error, versions_cache, group, path_filter, preview_button, scene_edits>>
    /\ before' = NotCommitted /\ log' = <<>>
    /\ UNCHANGED notManager

\* PathManager._commit_items(selected): 'Commit Selected' or 'Commit'.
\* ReplacePlugin.process is BasePlugin.process, which does nothing.
_commit_items(selected) ==
    LET rows == IF selected THEN selected_elements(items, selection)
                ELSE visible_elements(items, path_filter, group)
        upd == update_items(rows, scene)
    IN /\ before' = [done |-> TRUE, selected |-> selected, scene |-> scene,
                     items |-> items, rows |-> rows, selection |-> selection,
                     path_filter |-> path_filter]
       /\ log' = commit_steps(upd)
       /\ scene' = upd.scene
       /\ items' = IF upd.raised THEN items ELSE _load_items(upd.scene, values)
       /\ selection' = IF upd.raised THEN selection ELSE {}
       /\ UNCHANGED <<values, previewed, preview_error, versions_cache, group, path_filter, preview_button,
                      scene_edits>>
       /\ UNCHANGED notManager

Next ==
    \/ \E p \in ParmSet : \E r \in SceneRaws : SceneSet(p, r)
    \/ \E p \in ParmSet : SceneDelete(p)
    \/ \E v \in ManagerValues : _values_changed(v)
    \/ preview_toggled
    \/ set_group
    \/ \E f \in PathFilters : filter_changed(f)
    \/ \E sel \in SUBSET ParmSet : select(sel)
    \/ reload
    \/ \E selected \in BOOLEAN : _commit_items(selected)

Start == ManagerInit /\ ThreadInit /\ FilesIdle /\ PrefsIdle /\ WidgetIdle

Spec == Start /\ [][Next]_vars

\* The items the last Commit was to take: the selected rows for 'Commit
\* Selected', otherwise the items the filter of the tree lets through.
Chosen ==
    {it \in {before.items[i] : i \in 1..Len(before.items)} :
        IF before.selected THEN it.parm \in before.selection
        ELSE accepts(before.path_filter, it.raw)}

\* C1: Commit changes a parm of the scene if and only if its item is among the
\* chosen items (the selected rows for 'Commit Selected', otherwise the rows
\* visible under the filters), has a non-empty preview and its node and parm
\* exist; the parm is then set to exactly preview.raw, and every other parm is
\* left as it was.
CommitWritesExactlyTheChosenPreviews ==
    before.done =>
        \A p \in ParmSet :
            IF \E it \in Chosen :
                   it.parm = p /\ it.preview # <<>> /\ before.scene[p].exists
            THEN \E it \in Chosen :
                     /\ it.parm = p
                     /\ scene[p] = [before.scene[p] EXCEPT !.raw = it.preview]
            ELSE scene[p] = before.scene[p]

\* The positions of a step in the log of the last Commit.
StepsAt(step) == {i \in 1..Len(log) : log[i] = step}
Writes == {i \in 1..Len(log) : log[i] \in ParmSet}

CommitAppliesThePreviewOfTheValues ==
    before.done =>
        \A i \in 1..Len(before.rows) :
            before.rows[i].kind = "Item" =>
                before.rows[i].preview = _preview_items(<<before.rows[i]>>, values)[1].preview

\* ---------------------------------------------------------------------------
\* ReplacePlugin.preview over two items that may hold a preview already, with
\* replacements that refer to groups.
\* ---------------------------------------------------------------------------

\* The pieces of a replacement: a letter, a backslash, the references \2 and
\* \g<x>.
TemplatePieces ==
    {<<"Z">>, <<BACKSLASH>>, <<BACKSLASH, "2">>, <<BACKSLASH, "g", "<", "x", ">">>}
Templates2 == {Concat(ps) : ps \in SeqsUpTo(TemplatePieces, MaxReplaceLen)}
RegexRaws == {<<"a">>, <<"Z">>}
StalePreviews == {<<>>, <<"Z">>}

RegexInit ==
    /\ \E r1 \in RegexRaws, r2 \in RegexRaws :
       \E p1 \in StalePreviews, p2 \in StalePreviews :
           items = <<[raw |-> r1, status |-> FOUND, preview |-> p1],
                     [raw |-> r2, status |-> MISSING, preview |-> p2]>>
    /\ values \in {v \in [search : SeqsUpTo(RegexChars, MaxSearchLen),
                         replace : Templates2,
                         regex : BOOLEAN, match_case : {FALSE}] :
                      v.regex \/ \A i \in 1..Len(v.search) : v.search[i] \in WildcardChars}
    /\ previewed = FALSE
    /\ preview_error = ""
    /\ versions_cache = <<>>

RegexStart == RegexInit /\ ThreadInit /\ FilesIdle /\ PrefsIdle /\ ManagerIdle /\ WidgetIdle

SpecRegex == RegexStart /\ [][NextReplace]_vars

\* C11: ReplacePlugin.preview never raises on a regex error: when the search
\* does not compile no preview is modified, and when the substitution into an
\* item raises a regex error (an invalid group reference in the replacement)
\* the item is skipped and the call goes on to the other items and returns.
ReplacePreviewSwallowsRegexErrors ==
    [][ReplacePreview =>
          /\ preview_error' = ""
          /\ (values.search # <<>> /\ values.regex /\ compile(values.search).err)
                 => items' = items
          /\ (values.regex /\ parse_template(values.replace).err) => items' = items]_vars

\* ---------------------------------------------------------------------------
\* os.path on a POSIX system (posixpath), on strings as sequences of characters.
\* ---------------------------------------------------------------------------

\* The positions of the separators of p.
Seps(p) == {i \in 1..Len(p) : p[i] = "/"}

\* p.split('/')
RECURSIVE split(_)
split(p) ==
    IF Seps(p) = {} THEN <<p>>
    ELSE LET i == CHOOSE i \in Seps(p) : \A k \in Seps(p) : i <= k
         IN <<SubSeq(p, 1, i - 1)>> \o split(SubSeq(p, i + 1, Len(p)))

\* '/'.join(comps)
RECURSIVE sep_join(_)
sep_join(comps) ==
    IF comps = <<>> THEN <<>>
    ELSE IF Len(comps) = 1 THEN comps[1]
    ELSE comps[1] \o <<"/">> \o sep_join(Tail(comps))

DotDot == <<".", ".">>

\* The loop of posixpath.normpath over the components comps[i..], with the
\* components kept so far; slashes is the number of leading slashes.
RECURSIVE norm_comps(_, _, _, _)
norm_comps(comps, i, slashes, kept) ==
    IF i > Len(comps) THEN kept
    ELSE LET comp == comps[i]
         IN IF comp = <<>> \/ comp = <<".">> THEN norm_comps(comps, i + 1, slashes, kept)
            ELSE IF comp # DotDot \/ (slashes = 0 /\ kept = <<>>)
                    \/ (kept # <<>> /\ kept[Len(kept)] = DotDot)
                 THEN norm_comps(comps, i + 1, slashes, Append(kept, comp))
            ELSE IF kept # <<>>
                 THEN norm_comps(comps, i + 1, slashes, SubSeq(kept, 1, Len(kept) - 1))
            ELSE norm_comps(comps, i + 1, slashes, kept)

\* os.path.normpath(p)
normpath(p) ==
    IF p = <<>> THEN <<".">>
    ELSE LET slashes == IF p[1] # "/" THEN 0
                        ELSE IF At(p, 1, <<"/", "/">>) /\ ~At(p, 1, <<"/", "/", "/">>) THEN 2
                        ELSE 1
             normed == [i \in 1..slashes |-> "/"]
                       \o sep_join(norm_comps(split(p), 1, slashes, <<>>))
         IN IF normed = <<>> THEN <<".">> ELSE normed

\* os.path.basename(p)
basename(p) ==
    IF Seps(p) = {} THEN p
    ELSE LET i == CHOOSE i \in Seps(p) : \A k \in Seps(p) : k <= i
         IN SubSeq(p, i + 1, Len(p))

\* os.path.join(a, b)
join(a, b) ==
    IF b # <<>> /\ b[1] = "/" THEN b
    ELSE IF a = <<>> \/ a[Len(a)] = "/" THEN a \o b
    ELSE a \o <<"/">> \o b

\* ---------------------------------------------------------------------------
\* The plugins that derive the preview from the raw path: one call of
\* plugin.preview(items, kwargs) on items that may hold a preview already.
\* values.plugin names the plugin, the other fields are its parameters.
\* ---------------------------------------------------------------------------

\* Bounds of the plugin models.
MaxPathLen == 4

StaleWith(c) == {<<>>, <<c>>}

\* SetDirectoryPlugin.preview for one item: the item afterwards.
SetDirectoryPlugin_preview(it, v) ==
    IF v.directory = <<>> THEN it
    ELSE IF it.status = EXPRESSION THEN it
    ELSE LET filename == basename(normpath(it.raw))
         IN [it EXCEPT !.preview = set_preview(it.raw, join(v.directory, filename))]

\* fnmatch.fnmatchcase(name, pattern) for patterns of '*', '?' and literal
\* characters: pattern from position i against name from position j.
RECURSIVE fnmatch_from(_, _, _, _)
fnmatch_from(g, i, f, j) ==
    IF i > Len(g) THEN j > Len(f)
    ELSE IF g[i] = "*"
         THEN \E k \in j..(Len(f) + 1) : fnmatch_from(g, i + 1, f, k)
    ELSE IF g[i] = "?" THEN j <= Len(f) /\ fnmatch_from(g, i + 1, f, j + 1)
    ELSE j <= Len(f) /\ f[j] = g[i] /\ fnmatch_from(g, i + 1, f, j + 1)

\* fnmatch.filter(files, pattern) is not empty
fnmatch_filter(files, pattern) == \E f \in files : fnmatch_from(pattern, 1, f, 1)

\* The key of missing_items for an item: the file name with the collection
\* tokens replaced by '*'.
find_pattern(it) == sub(basename(normpath(it.raw)), MCollection, RStar)

\* The loop over os.walk(search_root) from its k-th directory on: walk is the
\* sequence of (root, files) that os.walk yields, pending the keys left in
\* missing_items.
RECURSIVE find_walk(_, _, _, _)
find_walk(its, walk, k, pending) ==
    IF k > Len(walk) \/ pending = {} THEN its
    ELSE LET hit == {g \in pending : fnmatch_filter(walk[k].files, g)}
             set == [i \in 1..Len(its) |->
                        IF its[i].status = MISSING /\ find_pattern(its[i]) \in hit
                        THEN [its[i] EXCEPT !.preview =
                                 set_preview(its[i].raw,
                                             join(walk[k].root,
                                                  basename(normpath(its[i].raw))))]
                        ELSE its[i]]
         IN find_walk(set, walk, k + 1, pending \ hit)

\* FindPlugin.preview(items, kwargs): the items afterwards.
FindPlugin_preview(its, v, walk) ==
    IF v.root = <<>> THEN its
    ELSE find_walk(its, walk, 1,
                   {find_pattern(its[i]) : i \in {k \in 1..Len(its) : its[k].status = MISSING}})

\* os.getcwd()
Cwd == <<"/", "c">>

\* os.path.abspath(p)
abspath(p) == normpath(join(Cwd, p))

\* [x for x in abspath(p).split('/') if x]
path_list(p) == LET Named(x) == x # <<>> IN SelectSeq(split(abspath(p)), Named)

\* len(os.path.commonprefix([a, b])) for two lists
RECURSIVE commonprefix(_, _)
commonprefix(a, b) ==
    IF a = <<>> \/ b = <<>> \/ Head(a) # Head(b) THEN 0
    ELSE 1 + commonprefix(Tail(a), Tail(b))

\* os.path.relpath(p, start) for a non-empty p
relpath(p, start_dir) ==
    LET start_list == path_list(start_dir)
        to_list == path_list(p)
        i == commonprefix(start_list, to_list)
        rel_list == [k \in 1..(Len(start_list) - i) |-> DotDot]
                    \o SubSeq(to_list, i + 1, Len(to_list))
    IN IF rel_list = <<>> THEN <<".">> ELSE sep_join(rel_list)

\* MovePlugin.preview for one item: the item afterwards.
MovePlugin_preview(it, v) ==
    IF v.destination = <<>> THEN it
    ELSE IF it.status # FOUND THEN it
    ELSE LET absolute_path == expand_string(it.raw)
             relative_path == relpath(absolute_path, v.relative_root)
             tail == IF v.relative_root_enabled /\ ~contains(relative_path, DotDot)
                     THEN relative_path
                     ELSE basename(absolute_path)
         IN [it EXCEPT !.preview =
                set_preview(it.raw, normpath(join(v.destination, tail)))]

\* AnchorMethod
RELATIVE_HIP == "Relative to $HIP"
RELATIVE_JOB == "Relative to $JOB"
ABSOLUTE == "Absolute"

\* re.split(r'[\\/]', relative_path).count('..')
dotdot_count(relative_path) ==
    LET M(s, i) == IF s[i] = BACKSLASH THEN 1 ELSE 0
        R(s, i) == <<"/">>
        parts == split(sub(relative_path, M, R))
    IN Cardinality({k \in 1..Len(parts) : parts[k] = DotDot})

\* RelativePlugin.preview for one item: the item afterwards.
RelativePlugin_preview(it, v) ==
    IF v.mode = ABSOLUTE
    THEN [it EXCEPT !.preview = set_preview(it.raw, expand_string(it.raw))]
    ELSE IF v.mode \notin {RELATIVE_HIP, RELATIVE_JOB} THEN it
    ELSE LET env == IF v.mode = RELATIVE_HIP THEN <<"$HIP">> ELSE <<"$JOB">>
             root == expand_string(env)
             relative_path == relpath(expand_string(it.raw), root)
         IN IF dotdot_count(relative_path) <= v.parents
            THEN [it EXCEPT !.preview = set_preview(it.raw, join(env, relative_path))]
            ELSE it

\* plugin.preview(items, kwargs) of the plugin the values name.
plugin_preview(its, v) ==
    CASE v.plugin = "set_directory" ->
             [i \in 1..Len(its) |-> SetDirectoryPlugin_preview(its[i], v)]
      [] v.plugin = "find" -> FindPlugin_preview(its, v, disk)
      [] v.plugin = "move" -> [i \in 1..Len(its) |-> MovePlugin_preview(its[i], v)]
      [] v.plugin = "relative" -> [i \in 1..Len(its) |-> RelativePlugin_preview(its[i], v)]
      [] OTHER -> its

\* PathManager._preview_items calls plugin.preview(items, values).
PluginPreview ==
    /\ ~previewed
    /\ previewed' = TRUE
    /\ items' = plugin_preview(items, values)
    /\ UNCHANGED <<values, preview_error, versions_cache>>
    /\ UNCHANGED notPlugin

SetDirectoryChars == {"d", "f", "/", ".", BACKSLASH, "<UDIM>"}
Directories == {<<>>, <<"d">>, <<"d", "/">>, <<"/", "d">>, <<"d", BACKSLASH, "e">>}

SetDirectoryInit ==
    /\ \E raw \in SeqsUpTo(SetDirectoryChars, MaxPathLen) \ {<<>>} :
       \E status \in {MISSING, FOUND, EXPRESSION} :
       \E stale \in StaleWith("f") :
           items = <<[raw |-> raw, status |-> status, preview |-> stale]>>
    /\ values \in [plugin : {"set_directory"}, directory : Directories]
    /\ previewed = FALSE
    /\ preview_error = ""
    /\ versions_cache = <<>>

SetDirectoryStart == SetDirectoryInit /\ ThreadInit /\ FilesIdle /\ PrefsIdle /\ ManagerIdle /\ WidgetIdle

SpecSetDirectory == SetDirectoryStart /\ [][PluginPreview]_vars

(***************************************************************************)
(* schema.py: Item.set_preview, called with any path                       *)
(***************************************************************************)
MaxPreviewLen == 3

PreviewChars == {"d", "/", BACKSLASH}
PreviewPaths == SeqsUpTo(PreviewChars, MaxPreviewLen)

SetPreviewInit ==
    /\ \E raw \in PreviewPaths : \E stale \in StaleWith("f") :
           items = <<[raw |-> raw, status |-> FOUND, preview |-> stale]>>
    /\ values = ""
    /\ previewed = FALSE
    /\ preview_error = ""
    /\ versions_cache = <<>>

\* item.set_preview(new_path), as the plugins call it.
Item_set_preview(new_path) ==
    /\ previewed' = TRUE
    /\ items' = [items EXCEPT ![1].preview = set_preview(items[1].raw, new_path)]
    /\ UNCHANGED <<values, preview_error, versions_cache>>
    /\ UNCHANGED notPlugin

NextSetPreview == \E new_path \in PreviewPaths : Item_set_preview(new_path)

SetPreviewStart ==
    SetPreviewInit /\ ThreadInit /\ FilesIdle /\ PrefsIdle /\ ManagerIdle /\ WidgetIdle

SpecSetPreview == SetPreviewStart /\ [][NextSetPreview]_vars

\* C23: after a call of set_preview, preview.raw is empty or differs from
\* path.raw.
PreviewDenotesAChange ==
    previewed => (items[1].preview = <<>> \/ items[1].preview # items[1].raw)

\* C12: SetDirectoryPlugin.preview with a non-empty directory sets, for every
\* item that is no EXPRESSION, the preview to the directory joined with the
\* last component of the raw path; an EXPRESSION item is never given a preview,
\* and with an empty directory no preview is modified.
SetDirectoryPreviewIsDirectoryAndFileName ==
    [][PluginPreview =>
          \A i \in 1..Len(items) :
              IF values.directory = <<>> \/ items[i].status = EXPRESSION
              THEN items'[i] = items[i]
              ELSE items'[i].preview =
                       join(values.directory, basename(normpath(items[i].raw)))]_vars

\* ---- FindPlugin ----

\* The search root 'r' holds files and one directory 's' with files; os.walk
\* yields the root first.
FindRoot == <<"r">>
FoundFiles == {{}, {<<"a">>}, {<<"a", "1">>}, {<<"a", "?">>}}
FindRaws ==
    {<<"a">>, <<"o", "/", "a">>, <<"r", "/", "a">>, <<"a", "$", "F">>, <<"a", "?">>,
     <<"o", BACKSLASH, "a">>}

FindPluginInit ==
    /\ \E r1 \in FindRaws, r2 \in FindRaws :
       \E s1 \in {MISSING, FOUND, EXPRESSION}, s2 \in {MISSING, FOUND, EXPRESSION} :
       \E p1 \in StaleWith("f"), p2 \in StaleWith("f") :
           items = <<[raw |-> r1, status |-> s1, preview |-> p1],
                     [raw |-> r2, status |-> s2, preview |-> p2]>>
    /\ values \in [plugin : {"find"}, root : {<<>>, FindRoot}]
    /\ \E top \in FoundFiles, below \in FoundFiles :
           disk = <<[root |-> FindRoot, files |-> top],
                    [root |-> join(FindRoot, <<"s">>), files |-> below]>>
    /\ path = <<>> /\ found = NotFound /\ item = NoItem /\ template = ""
    /\ previewed = FALSE
    /\ preview_error = ""
    /\ versions_cache = <<>>

FindPluginStart == FindPluginInit /\ ThreadInit /\ PrefsIdle /\ ManagerIdle /\ WidgetIdle

SpecFindPlugin == FindPluginStart /\ [][PluginPreview]_vars

\* The file name of an item with every collection token as the wildcard TOKEN.
TokenName(it) ==
    LET RToken(s, i) == <<"TOKEN">>
    IN sub(basename(normpath(it.raw)), MCollection, RToken)

\* A name against a file name in which only TOKEN is a wildcard.
RECURSIVE TokenMatch(_, _, _, _)
TokenMatch(g, i, f, j) ==
    IF i > Len(g) THEN j > Len(f)
    ELSE IF g[i] = "TOKEN"
         THEN \E k \in j..(Len(f) + 1) : TokenMatch(g, i + 1, f, k)
    ELSE j <= Len(f) /\ f[j] = g[i] /\ TokenMatch(g, i + 1, f, j + 1)

\* The directories of the walk that hold a file for the item.
Holding(it) ==
    {k \in 1..Len(disk) : \E f \in disk[k].files : TokenMatch(TokenName(it), 1, f, 1)}

\* C13: FindPlugin.preview sets previews on MISSING items only: when a
\* directory under the search root holds a file that matches the file name of
\* the item, with the frame and UDIM tokens as wildcards, the preview is the
\* first such directory in walk order joined with the file name of the item;
\* MISSING items without a match and all FOUND and EXPRESSION items keep
\* their preview.
FindPreviewIsFirstDirectoryWithTheFile ==
    [][PluginPreview =>
          \A i \in 1..Len(items) :
              IF values.root # <<>> /\ items[i].status = MISSING /\ Holding(items[i]) # {}
              THEN LET k == CHOOSE k \in Holding(items[i]) :
                                \A n \in Holding(items[i]) : k <= n
                   IN items'[i].preview =
                          join(disk[k].root, basename(normpath(items[i].raw)))
              ELSE items'[i] = items[i]]_vars

\* ---- MovePlugin ----

MaxMovePieces == 4

MovePieces == {<<"d">>, <<"f">>, <<"/">>, <<".">>, DotDot, <<BACKSLASH>>, <<"$HIP">>}
MoveRaws == {Concat(ps) : ps \in SeqsUpTo(MovePieces, MaxMovePieces)} \ {<<>>}
MoveValues ==
    [plugin : {"move"}, destination : {<<>>, <<"n">>, <<"/", "n">>},
     relative_root : {<<"d">>, <<"/", "c">>}, relative_root_enabled : BOOLEAN]

MoveInit ==
    /\ \E raw \in MoveRaws : \E status \in {FOUND, MISSING} :
       \E stale \in StaleWith("f") :
           items = <<[raw |-> raw, status |-> status, preview |-> stale]>>
    /\ values \in MoveValues
    /\ previewed = FALSE
    /\ preview_error = ""
    /\ versions_cache = <<>>

MoveStart == MoveInit /\ ThreadInit /\ FilesIdle /\ PrefsIdle /\ ManagerIdle /\ WidgetIdle

SpecMove == MoveStart /\ [][PluginPreview]_vars

\* The components of a normalised absolute path.
Comps(p) == LET Named(x) == x # <<>> IN SelectSeq(split(normpath(join(Cwd, p))), Named)

\* a is a prefix of b
IsPrefix(a, b) == Len(a) <= Len(b) /\ SubSeq(b, 1, Len(a)) = a

\* The tail the claim gives an item: the path below relative_root when the
\* expanded path is a child of it, the base name in every other case.
ClaimTail(it, v) ==
    LET absolute_path == expand_string(it.raw)
        below == SubSeq(Comps(absolute_path), Len(Comps(v.relative_root)) + 1,
                        Len(Comps(absolute_path)))
    IN IF v.relative_root_enabled /\ IsPrefix(Comps(v.relative_root), Comps(absolute_path))
       THEN (IF below = <<>> THEN <<".">> ELSE sep_join(below))
       ELSE basename(absolute_path)

\* C14: MovePlugin.preview sets previews on FOUND items only, and every
\* preview it sets lies inside the destination: it is normpath(destination/tail)
\* with tail the path relative to relative_root when that is enabled and the
\* expanded path is a child of it, and the base name in every other case.
\* With an empty destination no preview is set.
MovePreviewLiesInsideTheDestination ==
    [][PluginPreview =>
          \A i \in 1..Len(items) :
              IF values.destination = <<>> \/ items[i].status # FOUND
              THEN items'[i] = items[i]
              ELSE /\ items'[i].preview =
                          normpath(join(values.destination, ClaimTail(items[i], values)))
                   /\ IsPrefix(Comps(values.destination), Comps(items'[i].preview))]_vars

\* ---- RelativePlugin ----

MaxRelativePieces == 4
MaxParents == 1

RelativePieces == {<<"d">>, <<"s">>, <<"/">>, DotDot, <<BACKSLASH>>, <<"$HIP">>, <<"$JOB">>}
RelativeRaws == {Concat(ps) : ps \in SeqsUpTo(RelativePieces, MaxRelativePieces)} \ {<<>>}

RelativeInit ==
    /\ \E raw \in RelativeRaws : \E status \in {FOUND, EXPRESSION} :
       \E stale \in StaleWith("f") :
           items = <<[raw |-> raw, status |-> status, preview |-> stale]>>
    /\ values \in [plugin : {"relative"},
                   mode : {"", ABSOLUTE, RELATIVE_HIP, RELATIVE_JOB},
                   parents : 0..MaxParents]
    /\ previewed = FALSE
    /\ preview_error = ""
    /\ versions_cache = <<>>

RelativeStart == RelativeInit /\ ThreadInit /\ FilesIdle /\ PrefsIdle /\ ManagerIdle /\ WidgetIdle

SpecRelative == RelativeStart /\ [][PluginPreview]_vars

\* The environment variable of a mode.
EnvOf(mode) == IF mode = RELATIVE_HIP THEN <<"$HIP">> ELSE <<"$JOB">>

\* The relative path from the expanded root of the mode to the expanded path:
\* one '..' for every component of the root that the path does not share, then
\* the components of the path below the shared ones.
RelativeTo(mode, raw) ==
    LET root == Comps(expand_string(EnvOf(mode)))
        to == Comps(expand_string(raw))
        shared == commonprefix(root, to)
        rel == [k \in 1..(Len(root) - shared) |-> DotDot]
               \o SubSeq(to, shared + 1, Len(to))
    IN IF rel = <<>> THEN <<".">> ELSE sep_join(rel)

\* The number of '..' among the parts of a path.
DotDots(p) == Cardinality({k \in 1..Len(split(p)) : split(p)[k] = DotDot})

\* C15: in the relative modes an item gets the preview
\* '<env>/<relative path>' if and only if the relative path holds at most
\* `parents` '..' components, other items get no preview; in 'Absolute' mode the
\* preview is the expanded path; expanding the preview gives the location that
\* expanding the raw path gives.
RelativePreviewIsEnvAndRelativePath ==
    [][PluginPreview =>
          LET it == items[1]
              new == items'[1].preview
              rel == RelativeTo(values.mode, it.raw)
          IN /\ values.mode = ABSOLUTE => new = expand_string(it.raw)
             /\ values.mode \in {RELATIVE_HIP, RELATIVE_JOB} =>
                    IF DotDots(rel) <= values.parents
                    THEN new = join(EnvOf(values.mode), rel)
                    ELSE new = it.preview
             /\ values.mode = "" => new = it.preview
             /\ (values.mode # "" /\ new # it.preview) =>
                    Comps(expand_string(new)) = Comps(expand_string(it.raw))]_vars

(***************************************************************************)
(* pathmanager/plugins/version.py: VersionPlugin                           *)
(***************************************************************************)

MaxDiskFiles == 2
MaxVersion == 10

\* version_pattern ([\\/._]v)(\d+) at position i: the length of the match, 0 for none.
MVersion(s, i) ==
    IF s[i] \in {BACKSLASH, "/", ".", "_"} /\ At(s, i + 1, <<"v">>) /\ DigitRun(s, i + 2) > 0
    THEN 2 + DigitRun(s, i + 2)
    ELSE 0

\* version_pattern.sub(r'\1*', ...): the replacement of one match.
RVersionStar(s, i) == <<s[i], "v", Star>>

\* int() of the n digits of s from position i on.
RECURSIVE int(_, _, _)
int(s, i, n) == IF n = 0 THEN 0 ELSE 10 * int(s, i, n - 1) + DigitVal(s[i + n - 1])

\* str(n)
RECURSIVE str(_)
str(n) == IF n < 10 THEN <<ToString(n)>> ELSE str(n \div 10) \o <<ToString(n % 10)>>

\* f'{number:0{width}d}'
RECURSIVE zero_padded(_, _)
zero_padded(number, width) ==
    IF Len(str(number)) >= width THEN str(number)
    ELSE <<"0">> \o zero_padded(number, width - 1) 

\* version_pattern.search(file): the position of the leftmost match, 0 for none.
version_search(f) ==
    LET hits == {i \in 1..Len(f) : MVersion(f, i) > 0}
    IN IF hits = {} THEN 0 ELSE CHOOSE i \in hits : \A k \in hits : i <= k

\* version_pattern.sub(lambda m: ..., path): every version number of the raw
\* path replaced by number, padded to the width it has there.
version_path(raw, number) ==
    LET R(s, i) == <<s[i], "v">> \o zero_padded(number, DigitRun(s, i + 2))
    IN sub(raw, MVersion, R)

\* What glob sees below the working directory: the files and the directories
\* that hold them.
lexists(files) == {sep_join(SubSeq(split(f), 1, k)) : <<f, k>> \in
                       {<<f, k>> \in files \X (1..5) : k <= Len(split(f))}}

\* glob.glob(g) for a relative pattern: every component of the pattern is
\* matched against the names of one directory.
glob_glob(g, files) ==
    {e \in lexists(files) :
        /\ Len(split(e)) = Len(split(g))
        /\ \A k \in 1..Len(split(g)) : glob(split(g)[k], {split(e)[k]}) # {}}

\* VersionPlugin._get_versions(path) without its cache: version -> raw path.
_get_versions(raw, files) ==
    LET absolute_path == expand_string(raw)
        collected == sub(absolute_path, MCollection, RStar)
        pattern == sub(collected, MVersion, RVersionStar)
        versioned == {f \in glob_glob(pattern, files) : version_search(f) > 0}
        numbers == {int(f, version_search(f) + 2, DigitRun(f, version_search(f) + 2)) :
                        f \in versioned}
    IN [number \in numbers |-> version_path(raw, number)]

\* @lru_cache: the answer of the first call for a path is the answer of every
\* later call.
lru_cache(cache, raw, files) ==
    IF raw \in DOMAIN cache THEN cache[raw] ELSE _get_versions(raw, files)

\* VersionPlugin.preview for one item: the item afterwards.
VersionPlugin_preview(it, v, versions) ==
    IF it.status = EXPRESSION THEN it
    ELSE IF DOMAIN versions = {} THEN it
    ELSE LET paths == sorted({versions[n] : n \in DOMAIN versions})
             chosen == IF v.mode = "Latest" THEN paths[Len(paths)]
                       ELSE IF v.mode = "Earliest" THEN paths[1]
                       ELSE IF v.version \in DOMAIN versions THEN versions[v.version]
                       ELSE <<>>
         IN [it EXCEPT !.preview = set_preview(it.raw, chosen)]

\* VersionPlugin.preview(items, kwargs)
VersionPreview ==
    /\ previewed' = TRUE
    /\ items' = [i \in 1..Len(items) |->
                    VersionPlugin_preview(items[i], values,
                                          lru_cache(versions_cache, items[i].raw, disk))]
    /\ versions_cache' =
           LET called == {items[i].raw : i \in {k \in 1..Len(items) : items[k].status # EXPRESSION}}
           IN [raw \in DOMAIN versions_cache \cup called |->
                   lru_cache(versions_cache, raw, disk)]
    /\ UNCHANGED <<values, preview_error>>
    /\ UNCHANGED notPlugin

VersionRaws ==
    {<<"a", "_", "v", "1">>,
     <<"a", "_", "v", "0", "1">>,
     <<"a">>,
     <<"d", ".", "v", "1", "/", "a", "_", "v", "1">>,
     <<"a", "_", "v", "1", ".", "$", "F">>,
     <<"a", "_", "v", "1", ".", "<UDIM>">>,
     <<"$HIP", "/", "a", "_", "v", "1">>}

VersionFiles ==
    {<<"a", "_", "v", "1">>,
     <<"a", "_", "v", "2">>,
     <<"a", "_", "v", "1", "0">>,
     <<"a", "_", "v", "0", "2">>,
     <<"a">>,
     <<"d", ".", "v", "1", "/", "a", "_", "v", "1">>,
     <<"d", ".", "v", "2", "/", "a", "_", "v", "2">>,
     <<"d", ".", "v", "2", "/", "a", "_", "v", "1">>,
     <<"a", "_", "v", "2", ".", "1">>,
     <<"a", "_", "v", "1", "0", ".", "1", "0", "0", "1">>,
     <<"s", "/", "a", "_", "v", "2">>}

\* A file appears on disk while the panel is open.
Publish(f) ==
    /\ f \notin disk
    /\ Cardinality(disk) < MaxDiskFiles
    /\ disk' = disk \cup {f}
    /\ UNCHANGED <<path, found, item, template>>
    /\ UNCHANGED notFiles

VersionInit ==
    /\ \E raw \in VersionRaws : \E status \in {FOUND, EXPRESSION} :
       \E stale \in StaleWith("f") :
           items = <<[raw |-> raw, status |-> status, preview |-> stale]>>
    /\ values \in [plugin : {"version"},
                   mode : {"Latest", "Earliest", "Set"},
                   version : {1, 2, MaxVersion}]
    /\ disk \in {fs \in SUBSET VersionFiles : Cardinality(fs) <= MaxDiskFiles}
    /\ path = <<>> /\ found = NotFound /\ item = NoItem /\ template = ""
    /\ previewed = FALSE
    /\ preview_error = ""
    /\ versions_cache = <<>>

NextVersion ==
    \/ VersionPreview
    \/ \E f \in VersionFiles : Publish(f)

VersionStart == VersionInit /\ ThreadInit /\ PrefsIdle /\ ManagerIdle /\ WidgetIdle

SpecVersion == VersionStart /\ [][NextVersion]_vars

\* The file f, from position j on, is the path p, from position i on, with
\* the number n in the place of every version number (in any padding) and any
\* text of one name in the place of a frame or UDIM token.
RECURSIVE VersionFrom(_, _, _, _, _)
VersionFrom(p, i, f, j, n) ==
    IF i > Len(p) THEN j > Len(f)
    ELSE IF MVersion(p, i) > 0
         THEN /\ At(f, j, <<p[i], "v">>)
              /\ \E k \in 1..DigitRun(f, j + 2) :
                     /\ int(f, j + 2, k) = n
                     /\ VersionFrom(p, i + MVersion(p, i), f, j + 2 + k, n)
    ELSE IF MCollection(p, i) > 0
         THEN \E k \in j..(Len(f) + 1) :
                  /\ \A x \in j..(k - 1) : f[x] # "/"
                  /\ VersionFrom(p, i + MCollection(p, i), f, k, n)
    ELSE j <= Len(f) /\ f[j] = p[i] /\ VersionFrom(p, i + 1, f, j + 1, n)

\* The version numbers the claim calls found on disk: the raw path has a
\* version number, and the path with that number in its place exists.
HasVersion(raw) == \E i \in 1..Len(raw) : MVersion(raw, i) > 0
OnDisk(raw, files) ==
    {n \in 0..MaxVersion :
        /\ HasVersion(raw)
        /\ \E f \in lexists(files) : VersionFrom(expand_string(raw), 1, f, 1, n)}
Highest(S) == CHOOSE n \in S : \A k \in S : k <= n
Lowest(S) == CHOOSE n \in S : \A k \in S : n <= k

\* C16: VersionPlugin.preview leaves an EXPRESSION item and an item with no
\* version on disk without a preview; for every other item 'Latest' previews
\* the raw path with the highest version number found on disk, 'Earliest'
\* the one with the lowest, and 'Set' the requested one if it is on disk and
\* nothing otherwise.
VersionPreviewSelectsByNumber ==
    [][VersionPreview =>
          \A i \in 1..Len(items) :
             LET it == items[i]
                 now == items'[i].preview
                 versions == OnDisk(it.raw, disk)
                 nothing == now \in {<<>>, it.preview}
                 shows(n) == now = set_preview(it.raw, version_path(it.raw, n))
             IN IF it.status = EXPRESSION \/ versions = {} THEN nothing
                ELSE IF values.mode = "Latest" THEN shows(Highest(versions))
                ELSE IF values.mode = "Earliest" THEN shows(Lowest(versions))
                ELSE IF values.version \in versions THEN shows(values.version)
                ELSE nothing]_vars

(***************************************************************************)
(* pathmanager/widgets/filter.py: Filter                                   *)
(***************************************************************************)

\* Python values: the type, the number of an int, a bool or a float, the
\* characters of a str or the members of a tuple, the members of a set.
py_None == [t |-> "None", n |-> 0, s |-> <<>>, e |-> {}]
py_int(n) == [t |-> "int", n |-> n, s |-> <<>>, e |-> {}]
py_bool(b) == [t |-> "bool", n |-> IF b THEN 1 ELSE 0, s |-> <<>>, e |-> {}]
py_float(n) == [t |-> "float", n |-> n, s |-> <<>>, e |-> {}]
py_str(x) == [t |-> "str", n |-> 0, s |-> x, e |-> {}]
py_tuple(q) == [t |-> "tuple", n |-> 0, s |-> q, e |-> {}]
py_set(S) == [t |-> "set", n |-> 0, s |-> <<>>, e |-> S]

Numbers == {"int", "bool", "float"}

\* a == b
py_eq(a, b) ==
    IF a.t \in Numbers /\ b.t \in Numbers THEN a.n = b.n
    ELSE a = b

\* bool(a)
py_truth(a) ==
    CASE a.t = "None" -> FALSE
      [] a.t \in Numbers -> a.n # 0
      [] a.t \in {"str", "tuple"} -> a.s # <<>>
      [] a.t = "set" -> a.e # {}

\* The result of a call: what bool() gives for it, or the exception.
py_bool_of(b) == IF b THEN "True" ELSE "False"

\* operator.eq(a, b)
operator_eq(a, b) == py_bool_of(py_eq(a, b))

\* b in a
py_in(b, a) ==
    CASE a.t = "str" -> IF b.t = "str" THEN py_bool_of(contains(a.s, b.s)) ELSE "TypeError"
      [] a.t = "tuple" -> py_bool_of(b.t = "str" /\ \E i \in 1..Len(a.s) : a.s[i] = b.s)
      [] a.t = "set" -> py_bool_of(b.t = "str" /\ b.s \in a.e)
      [] OTHER -> "TypeError"

\* operator.contains(a, b)
operator_contains(a, b) == py_in(b, a)

\* is_in(a, b)
is_in(a, b) == py_in(a, b)

\* operator.lt(a, b) and operator.gt(a, b)
RECURSIVE tuple_lt(_, _)
tuple_lt(a, b) ==
    IF b = <<>> THEN FALSE
    ELSE IF a = <<>> THEN TRUE
    ELSE IF Head(a) = Head(b) THEN tuple_lt(Tail(a), Tail(b))
    ELSE StrLess(Head(a), Head(b))
operator_lt(a, b) ==
    IF a.t \in Numbers /\ b.t \in Numbers THEN py_bool_of(a.n < b.n)
    ELSE IF a.t = "str" /\ b.t = "str" THEN py_bool_of(StrLess(a.s, b.s))
    ELSE IF a.t = "tuple" /\ b.t = "tuple" THEN py_bool_of(tuple_lt(a.s, b.s))
    ELSE IF a.t = "set" /\ b.t = "set" THEN py_bool_of(a.e \subseteq b.e /\ a.e # b.e)
    ELSE "TypeError"
operator_gt(a, b) == operator_lt(b, a)

\* self.match(value, self.value)
call_match(f, value) ==
    CASE f.match = "eq" -> operator_eq(value, f.value)
      [] f.match = "contains" -> operator_contains(value, f.value)
      [] f.match = "is_in" -> is_in(value, f.value)
      [] f.match = "lt" -> operator_lt(value, f.value)
      [] f.match = "gt" -> operator_gt(value, f.value)

\* x != self.inverted, for the bool or the exception x a call gave
py_ne_inverted(x, inverted) ==
    IF x = "TypeError" THEN x ELSE py_bool_of((x = "True") # inverted)

\* Filter.accepts, were the filter value 0 taken for no filter value.
Filter_accepts_zero_is_empty(f, value) ==
    IF f.match = "None" \/ value.t = "None" THEN "True"
    ELSE IF ~py_truth(f.value) THEN "True"
    ELSE py_ne_inverted(call_match(f, value), f.inverted)

\* Filter.accepts(value)
Filter_accepts(f, value) ==
    IF f.match = "None" \/ value.t = "None" THEN "True"
    ELSE IF py_eq(f.value, py_int(0)) THEN py_ne_inverted(call_match(f, value), f.inverted)
    ELSE IF ~py_truth(f.value) THEN "True"
    ELSE py_ne_inverted(call_match(f, value), f.inverted)

\* The values of a cell and of a filter.
PyValues ==
    {py_None, py_int(0), py_int(1), py_bool(FALSE), py_bool(TRUE), py_float(0),
     py_str(<<>>), py_str(<<"a">>), py_str(<<"a", "d">>),
     py_tuple(<<>>), py_tuple(<<<<"a">>>>), py_set({}), py_set({<<"a">>})}

Matches == {"None", "eq", "contains", "is_in", "lt", "gt"}

FilterInit ==
    /\ accept_call \in [filter : [value : PyValues, match : Matches, inverted : BOOLEAN],
                        value : PyValues, result : {""}, called : {FALSE}]
    /\ tree = <<>>
    /\ removal = ""
    /\ multi = "" /\ column = <<>> /\ refresh = ""

\* field_filter.accepts(value)
Accepts ==
    /\ ~accept_call.called
    /\ accept_call' = [accept_call EXCEPT
                           !.called = TRUE,
                           !.result = Filter_accepts(accept_call.filter, accept_call.value)]
    /\ UNCHANGED <<tree, removal, multi, column, refresh>>
    /\ UNCHANGED notWidget

NextFilter == Accepts

FilterStart == FilterInit /\ ThreadInit /\ FilesIdle /\ PrefsIdle /\ PluginIdle /\ ManagerIdle

SpecFilter == FilterStart /\ [][NextFilter]_vars

\* The filter values the claim takes for no filter value: None and the empty
\* string, tuple and set.  A number is never one: 0, 0.0 and False are 0.
NoFilterValue(v) == v \in {py_None, py_str(<<>>), py_tuple(<<>>), py_set({})}

\* C19: Filter.accepts(v) is True when v is None, when the filter has no match
\* function and when the filter value is falsy without being 0; in every other
\* case, filter value 0 included, it is match(v, filter.value), negated when
\* the filter is inverted.
AcceptsIsTheMatchUnlessThereIsNothingToMatch ==
    accept_call.called =>
        LET f == accept_call.filter
            v == accept_call.value
            matched == call_match(f, v)
        IN IF v = py_None \/ f.match = "None" \/ NoFilterValue(f.value)
           THEN accept_call.result = "True"
           ELSE IF matched = "TypeError" THEN accept_call.result = "TypeError"
           ELSE accept_call.result = py_bool_of(IF f.inverted THEN matched = "False"
                                                              ELSE matched = "True")

\* accepts was called on a filter with the value 0 and said no.
ZeroFilterRejected ==
    /\ accept_call.called
    /\ accept_call.filter.value = py_int(0)
    /\ accept_call.filter.match = "eq" /\ ~accept_call.filter.inverted
    /\ accept_call.value = py_int(1)
    /\ accept_call.result = "False"

(***************************************************************************)
(* pathmanager/widgets/tree.py: ElementModel                               *)
(***************************************************************************)

MaxElements == 4
MaxTreeDepth == 3

\* The objects shown in the tree (elements and the Containers of groups).
Elements == {"e" \o ToString(k) : k \in 1..MaxElements}

\* A row of the QStandardItemModel: the UserRole data of its first item
\* ("None" for a row of null items) and its child rows.
Row(data, children) == [data |-> data, children |-> children]

\* The row at a path of row numbers, and the rows below a path.
RECURSIVE rows_at(_, _)
rows_at(rows, at) ==
    IF at = <<>> THEN rows ELSE rows_at(rows[Head(at)].children, Tail(at))
row_at(rows, at) == rows_at(rows, SubSeq(at, 1, Len(at) - 1))[at[Len(at)]]

\* The paths of all rows.
RECURSIVE row_paths(_)
row_paths(rows) ==
    UNION {{<<i>>} \cup {<<i>> \o below : below \in row_paths(rows[i].children)} :
               i \in 1..Len(rows)}

\* ElementModel.elements(): the data of all rows, parents before their children.
RECURSIVE elements(_)
elements(rows) ==
    IF rows = <<>> THEN <<>>
    ELSE (IF Head(rows).data = "None" THEN <<>> ELSE <<Head(rows).data>>)
         \o elements(Head(rows).children) \o elements(Tail(rows))

\* item.appendRow(...) on the item at a path (the invisible root for <<>>).
RECURSIVE appendRows(_, _, _)
appendRows(rows, at, new_rows) ==
    IF at = <<>> THEN rows \o new_rows
    ELSE [rows EXCEPT ![Head(at)].children = appendRows(@, Tail(at), new_rows)]

\* ElementModel.find_index(value): the path of the first row with the value,
\* parents before their children; <<>> is the invalid index.
RECURSIVE find_index_from(_, _, _)
find_index_from(rows, i, value) ==
    IF i > Len(rows) THEN <<>>
    ELSE IF rows[i].data = value THEN <<i>>
    ELSE LET below == find_index_from(rows[i].children, 1, value)
         IN IF below # <<>> THEN <<i>> \o below
            ELSE find_index_from(rows, i + 1, value)
find_index(rows, value) == find_index_from(rows, 1, value)

\* QAbstractItemModel.removeRow(row) with the default parent, the root.
removeRow(rows, row) ==
    IF row \in 1..Len(rows)
    THEN SubSeq(rows, 1, row - 1) \o SubSeq(rows, row + 1, Len(rows))
    ELSE rows

\* ElementModel.remove_element(element) for an element of the model: the rows
\* afterwards and the exception raised.  item.parent() is None for a top-level
\* item; appendRow does not take an item that has a parent already and puts a
\* row of null items in its place.
remove_element(rows, element) ==
    LET index == find_index(rows, element)
        std_item == row_at(rows, index)
        parent_path == SubSeq(index, 1, Len(index) - 1)
        null_rows == [k \in 1..Len(std_item.children) |-> Row("None", <<>>)]
    IN IF parent_path = <<>> /\ std_item.children # <<>>
       THEN [tree |-> rows, raised |-> "AttributeError"]
       ELSE [tree |-> removeRow(appendRows(rows, parent_path, null_rows), index[Len(index)]),
             raised |-> ""]

\* The paths a parent index can have.
RowPaths == SeqsUpTo(1..MaxElements, MaxTreeDepth - 1)

NotRemoved == [called |-> FALSE, element |-> "", before |-> <<>>, raised |-> ""]

TreeInit ==
    /\ tree = <<>>
    /\ removal = NotRemoved
    /\ accept_call = ""
    /\ multi = "" /\ column = <<>> /\ refresh = ""

\* ElementModel.append_element(obj, parent)
append_element(obj, at) ==
    /\ ~removal.called
    /\ \A i \in 1..Len(elements(tree)) : elements(tree)[i] # obj
    /\ at \in {<<>>} \cup row_paths(tree)
    /\ tree' = appendRows(tree, at, <<Row(obj, <<>>)>>)
    /\ UNCHANGED <<removal, accept_call, multi, column, refresh>>
    /\ UNCHANGED notWidget

\* ElementModel.remove_element(element)
RemoveElement(element) ==
    /\ ~removal.called
    /\ find_index(tree, element) # <<>>
    /\ tree' = remove_element(tree, element).tree
    /\ removal' = [called |-> TRUE, element |-> element, before |-> tree,
                   raised |-> remove_element(tree, element).raised]
    /\ UNCHANGED <<accept_call, multi, column, refresh>>
    /\ UNCHANGED notWidget

NextTree ==
    \/ \E obj \in Elements, at \in RowPaths : append_element(obj, at)
    \/ \E element \in Elements : RemoveElement(element)

TreeStart == TreeInit /\ ThreadInit /\ FilesIdle /\ PrefsIdle /\ PluginIdle /\ ManagerIdle

SpecTree == TreeStart /\ [][NextTree]_vars

\* How often x is an element of the rows.
Times(rows, x) == Cardinality({i \in 1..Len(elements(rows)) : elements(rows)[i] = x})

\* The rows below the row that was the parent of the removed element.
UnderFormerParent ==
    LET index == find_index(removal.before, removal.element)
        parent_path == SubSeq(index, 1, Len(index) - 1)
    IN IF parent_path = <<>> THEN tree
       ELSE LET now == find_index(tree, row_at(removal.before, parent_path).data)
            IN IF now = <<>> THEN <<>> ELSE row_at(tree, now).children

\* C20: remove_element(e) removes the row of e, whatever its level, and no
\* other: e is not in the model afterwards, every other element is in it
\* once, and the rows that were below e are below the former parent of e.
RemoveElementRemovesOneRow ==
    removal.called =>
        LET e == removal.element
            was == row_at(removal.before, find_index(removal.before, e))
        IN /\ removal.raised = ""
           /\ Times(tree, e) = 0
           /\ \A x \in Elements \ {e} : Times(tree, x) = Times(removal.before, x)
           /\ \A k \in 1..Len(was.children) :
                  \E i \in 1..Len(UnderFormerParent) : UnderFormerParent[i] = was.children[k]

(***************************************************************************)
(* widgets/filter.py: MultiFilterWidget and FilterListWidget.refresh_column *)
(*                                                                         *)
(* The values of a column are what index.data(role) returns: None for a    *)
(* cell without data, a StyledItem otherwise (the panel's 'Parm Type' and  *)
(* 'Status' columns).  StyledItems are equal when their names are equal    *)
(* and are ordered by their names (meta.Sortable, StyledItem._sort_value). *)
(***************************************************************************)
MaxRows == 3
MaxChanges == 2

StyleNames == {<<"d">>, <<"s">>, <<"d", "s">>}

StyledItem(name) == [none |-> FALSE, name |-> name]
NoData == [none |-> TRUE, name |-> <<>>]

StyledItems == {StyledItem(n) : n \in StyleNames}
Cells == StyledItems \cup {NoData}

\* sorted(...) of StyledItems: Sortable.__lt__ compares the names.
sorted_items(S) ==
    LET q == sorted({c.name : c \in S})
    IN [i \in 1..Len(q) |-> StyledItem(q[i])]

\* FilterListWidget._get_column_values: the set of the column's data over
\* the rows of every level.
_get_column_values(cells) == {cells[i] : i \in 1..Len(cells)}

\* MultiFilterWidget.set_values(values) on widget w: the widget afterwards.
\* The check boxes are rebuilt and checked with their signals blocked.
MultiFilterWidget_set_values(w, vals) ==
    LET new == sorted_items({v \in vals : ~v.none})
    IN IF w._values # new THEN [w EXCEPT !._values = new] ELSE w

\* FilterWidget.set_value(value): the base class.
FilterWidget_set_value(w, value) ==
    IF w.value # value
    THEN [w EXCEPT !.value = value, !.changed = @ + 1]
    ELSE w

\* MultiFilterWidget.set_value without the branch that adds the values
\* that have no check box.
MultiFilterWidget_set_value_no_add(w, value) ==
    FilterWidget_set_value(w, value)

\* MultiFilterWidget.set_value(value) on widget w: the widget afterwards.
MultiFilterWidget_set_value(w, value) ==
    LET w1 == IF ~(value \subseteq AsSet(w._values))
              THEN MultiFilterWidget_set_values(w, AsSet(w._values) \cup value)
              ELSE w
    IN FilterWidget_set_value(w1, value)

NotRefreshed == [called |-> FALSE, widget |-> [_values |-> <<>>, value |-> {}, changed |-> 0],
                 column |-> <<>>]

\* MultiFilterWidget.__init__, FilterListWidget.add_filter_widget on an empty model.
FilterListInit ==
    /\ multi = [_values |-> <<>>, value |-> {}, changed |-> 0]
    /\ column = <<>>
    /\ refresh = NotRefreshed
    /\ accept_call = "" /\ tree = <<>> /\ removal = ""

\* The model changes: a row is added with data c in the column.
appendRow(c) ==
    /\ Len(column) < MaxRows
    /\ column' = Append(column, c)
    /\ refresh' = NotRefreshed
    /\ UNCHANGED <<multi, accept_call, tree, removal, notWidget>>

\* The model changes: row i is removed.
takeRow(i) ==
    /\ i \in 1..Len(column)
    /\ column' = SubSeq(column, 1, i - 1) \o SubSeq(column, i + 1, Len(column))
    /\ refresh' = NotRefreshed
    /\ UNCHANGED <<multi, accept_call, tree, removal, notWidget>>

\* MultiFilterWidget._checkbox_toggled: the user toggles the check box of v.
MultiFilterWidget_checkbox_toggled(v) ==
    /\ v \in AsSet(multi._values)
    /\ multi.changed < MaxChanges
    /\ multi' = FilterWidget_set_value(multi, IF v \in multi.value
                                              THEN multi.value \ {v}
                                              ELSE multi.value \cup {v})
    /\ refresh' = NotRefreshed
    /\ UNCHANGED <<column, accept_call, tree, removal, notWidget>>

\* StyledFilterWidget.set_state(state) with value the names of S (set_inverted
\* is outside what is modelled here).
StyledFilterWidget_set_state(S) ==
    /\ multi.changed < MaxChanges
    /\ multi' = MultiFilterWidget_set_value(multi, S)
    /\ refresh' = NotRefreshed
    /\ UNCHANGED <<column, accept_call, tree, removal, notWidget>>

\* FilterListWidget.refresh_column(column) for the column of the widget.
refresh_column ==
    /\ refresh' = [called |-> TRUE, widget |-> multi, column |-> column]
    /\ multi' = LET value == multi.value
                    column_values == _get_column_values(column)
                IN MultiFilterWidget_set_value(
                       MultiFilterWidget_set_values(multi, column_values), value)
    /\ UNCHANGED <<column, accept_call, tree, removal, notWidget>>

NextFilterList ==
    \/ \E c \in Cells : appendRow(c)
    \/ \E i \in 1..MaxRows : takeRow(i)
    \/ \E v \in StyledItems : MultiFilterWidget_checkbox_toggled(v)
    \/ \E S \in SUBSET StyledItems : StyledFilterWidget_set_state(S)
    \/ refresh_column

FilterListStart ==
    FilterListInit /\ ThreadInit /\ FilesIdle /\ PrefsIdle /\ PluginIdle /\ ManagerIdle

SpecFilterList == FilterListStart /\ [][NextFilterList]_vars

\* C21: refresh_column leaves the selected values of the filter as they
\* were (and filter_changed is not emitted), and the available values
\* afterwards are the values of the model column, None removed, unique and
\* sorted by name, together with the selected values that are not in the
\* model any more.
RefreshKeepsTheSelection ==
    [][refresh_column =>
          /\ multi'.value = multi.value
          /\ multi'.changed = multi.changed
          /\ LET names == {column[i].name : i \in {k \in 1..Len(column) : ~column[k].none}}
                          \cup {v.name : v \in multi.value}
                 q == multi'._values
             IN /\ {q[i].name : i \in 1..Len(q)} = names
                /\ Len(q) = Cardinality(names)
                /\ \A i \in 1..Len(q) : ~q[i].none
                /\ \A i \in 1..Len(q) - 1 : StrLess(q[i].name, q[i + 1].name)]_vars

\* A refresh with a selected value that is no longer in the model: it is
\* still selected and has a check box, next to a value of the model.
RefreshedWithAStaleSelection ==
    /\ refresh.called
    /\ refresh.widget.value # {}
    /\ multi.value = refresh.widget.value
    /\ \E v \in multi.value :
           /\ \A i \in 1..Len(column) : column[i] # v
           /\ v \in AsSet(multi._values)
    /\ \E i \in 1..Len(column) : column[i] = NoData
    /\ \E i \in 1..Len(column) : ~column[i].none /\ column[i] \in AsSet(multi._values)
    /\ AsSet(refresh.widget._values) # AsSet(multi._values)

(***************************************************************************)
(* plugins/mv.py: MovePlugin.process                                       *)
(*                                                                         *)
(* The disk is the content of every file (a file is known by its content)  *)
(* and the set of directories.  The current directory is the empty path;   *)
(* it exists.                                                              *)
(***************************************************************************)
MaxMoveItems == 2

\* os.path.dirname(p)
dirname(p) ==
    IF Seps(p) = {} THEN <<>>
    ELSE LET i == CHOOSE i \in Seps(p) : \A k \in Seps(p) : k <= i
             head == SubSeq(p, 1, i)
             RECURSIVE rstrip(_)
             rstrip(h) == IF h # <<>> /\ h[Len(h)] = "/" THEN rstrip(SubSeq(h, 1, Len(h) - 1))
                          ELSE h
         IN IF rstrip(head) = <<>> THEN head ELSE rstrip(head)

\* os.path.isdir(p), os.path.exists(p)
isdir(fs, p) == p \in fs.dirs
exists(fs, p) == p \in fs.dirs \/ p \in DOMAIN fs.content

\* os.rename(src, dst) of a file onto a path that is not a directory: the
\* disk afterwards; it fails where the directory of dst does not exist.
rename(fs, src, dst) ==
    IF src = dst THEN fs
    ELSE [fs EXCEPT !.content =
             [f \in (DOMAIN fs.content \ {src}) \cup {dst} |->
                 IF f = dst THEN fs.content[src] ELSE fs.content[f]]]

\* shutil.move(src, dst) inside try / except IOError: the disk afterwards,
\* unchanged where shutil.move raises (shutil.Error and OSError are IOError).
shutil_move(fs, src, dst) ==
    IF src \notin DOMAIN fs.content THEN fs
    ELSE IF isdir(fs, dst)
         THEN LET real_dst == join(dst, basename(src))
              IN IF exists(fs, real_dst) THEN fs
                 ELSE rename(fs, src, real_dst)
    ELSE IF dst = <<>> \/ ~(dirname(dst) = <<>> \/ isdir(fs, dirname(dst))) THEN fs
    ELSE rename(fs, src, dst)

\* glob.glob(glob_pattern), glob_pattern the path with '*' for its tokens, in the order the
\* directory is listed in (either one).
process_files(it, fs, reversed) ==
    LET star_pattern == sub(expand_string(it.raw), MCollection, RStar)
        q == sorted(glob_glob(star_pattern, DOMAIN fs.content \cup fs.dirs))
    IN IF reversed THEN [i \in 1..Len(q) |-> q[Len(q) + 1 - i]] ELSE q

\* The dict of operations after the first k items: a key that is set again
\* keeps its place.
RECURSIVE operations(_, _, _, _)
operations(its, fs, reversed, k) ==
    IF k = 0 THEN <<>>
    ELSE LET ops == operations(its, fs, reversed, k - 1)
             it == its[k]
             files == process_files(it, fs, reversed)
             op == [preview |-> it.preview, files |-> files,
                    destination |-> dirname(expand_string(it.preview))]
         IN IF it.preview = <<>> \/ files = <<>> THEN ops
            ELSE IF \E n \in 1..Len(ops) : ops[n].preview = it.preview
                 THEN [n \in 1..Len(ops) |->
                          IF ops[n].preview = it.preview THEN op ELSE ops[n]]
            ELSE Append(ops, op)

\* for src in files: shutil.move(src, destination)
RECURSIVE move_files(_, _, _)
move_files(fs, files, destination) ==
    IF files = <<>> THEN fs
    ELSE move_files(shutil_move(fs, Head(files), destination), Tail(files), destination)

RECURSIVE move_operations(_, _)
move_operations(fs, ops) ==
    IF ops = <<>> THEN fs
    ELSE move_operations(move_files(fs, Head(ops).files, Head(ops).destination), Tail(ops))

\* MovePlugin.process(items, kwargs): the disk afterwards.
MovePlugin_process(its, fs, reversed) ==
    move_operations(fs, operations(its, fs, reversed, Len(its)))

ProcessSources == {<<"s", "/", "<UDIM>">>, <<"s", "/", "1">>}
ProcessPreviews == {<<>>, <<"d", "/", "<UDIM>">>, <<"d", "/", "1">>,
                    <<"x", "/", "<UDIM>">>, <<"d", "/", "s", "/", "<UDIM>">>}

\* The files of the sequence in s, and what d holds.
ProcessContents(ds) ==
    LET names == {<<"s", "/", "1">>, <<"s", "/", "2">>}
                 \cup (IF <<"d">> \in ds THEN {<<"d", "/", "1">>} ELSE {})
        text(f) == IF f = <<"s", "/", "1">> THEN "first"
                   ELSE IF f = <<"s", "/", "2">> THEN "second" ELSE "other"
    IN {[f \in F |-> text(f)] : F \in SUBSET names}

ProcessInit ==
    /\ \E ds \in SUBSET {<<"d">>, <<"x">>} : \E c \in ProcessContents(ds) :
           disk = [content |-> c, dirs |-> {<<"s">>} \cup ds]
    /\ \E n \in 1..MaxMoveItems :
           items \in [1..n -> [raw : ProcessSources, status : {FOUND},
                               preview : ProcessPreviews]]
    /\ path = <<>> /\ found = NotFound /\ item = NoItem /\ template = ""
    /\ values = "" /\ previewed = FALSE /\ preview_error = "" /\ versions_cache = <<>>

\* PathManager._commit_items calls plugin.process(items, values).
Process(reversed) ==
    /\ disk' = MovePlugin_process(items, disk, reversed)
    /\ UNCHANGED <<path, found, item, template>>
    /\ UNCHANGED pluginVars
    /\ UNCHANGED <<threadVars, prefsVars, managerVars, widgetVars>>

NextProcess == \E reversed \in BOOLEAN : Process(reversed)

ProcessStart == ProcessInit /\ ThreadInit /\ PrefsIdle /\ ManagerIdle /\ WidgetIdle

SpecProcess == ProcessStart /\ [][NextProcess]_vars

\* The files the source pattern of it matches on fs.
Matched(it, fs) ==
    LET q == process_files(it, fs, FALSE)
    IN {q[i] : i \in 1..Len(q)} \cap DOMAIN fs.content

\* C24: after process, every file that matched the source pattern of an
\* item with a preview is at its original path or in the directory of the
\* item's preview under its own name, and no file that was on the disk is
\* gone.
ProcessKeepsEveryFile ==
    [][NextProcess =>
          /\ \A i \in 1..Len(items) :
                 items[i].preview # <<>> =>
                     \A f \in Matched(items[i], disk) :
                         LET to == join(dirname(expand_string(items[i].preview)),
                                        basename(f))
                         IN \/ f \in DOMAIN disk'.content
                               /\ disk'.content[f] = disk.content[f]
                            \/ to \in DOMAIN disk'.content
                               /\ disk'.content[to] = disk.content[f]
          /\ \A f \in DOMAIN disk.content :
                 \E g \in DOMAIN disk'.content : disk'.content[g] = disk.content[f]]_vars

====
